---- MODULE Spec2Model ----
(***************************************************************************)
(* A model of the zeek-tsv reader: the field splitter (Parser), the header *)
(* parser (readHeader), the value converters, the eager Reader and the     *)
(* LazyReader/LazyRecord, with byte-offset tracking and Seek.              *)
(*                                                                         *)
(* A byte is a one-character string; a []byte is a sequence of bytes.  A   *)
(* nil []byte and an empty one are both <<>> (bytes.Equal does not tell    *)
(* them apart); where the code tests "== nil" the model carries a tag.     *)
(* Stream positions are 1-based indexes; byte offsets are 0-based as in    *)
(* the code (offset o is position o + 1).                                  *)
(***************************************************************************)
EXTENDS Integers, Sequences, FiniteSets

\* ------------------------------------------------------------------ bytes

Min(S) == CHOOSE x \in S : \A y \in S : x <= y

\* bytes.HasPrefix
HasPrefix(s, prefix) ==
    /\ Len(s) >= Len(prefix)
    /\ SubSeq(s, 1, Len(prefix)) = prefix

\* strings.HasSuffix
HasSuffix(s, suffix) ==
    /\ Len(s) >= Len(suffix)
    /\ SubSeq(s, Len(s) - Len(suffix) + 1, Len(s)) = suffix

\* bytes.Count(s, []byte{c}) for a one-byte separator
Count(s, c) == Cardinality({i \in 1..Len(s) : s[i] = c})

\* position of the j-th (1-based) occurrence of byte c in s
NthIndex(s, c, j) ==
    LET P == {i \in 1..Len(s) : s[i] = c}
    IN  CHOOSE i \in P : Cardinality({x \in P : x < i}) = j - 1

\* bytes.Index / strings.Index: 1-based position of the first occurrence of
\* sep in s at or after position from, 0 when there is none
IndexFrom(s, sep, from) ==
    LET P == {i \in from..(Len(s) - Len(sep) + 1) : SubSeq(s, i, i + Len(sep) - 1) = sep}
    IN  IF P = {} THEN 0 ELSE Min(P)

\* bytes.Split(s, sep): the pieces of s between non-overlapping occurrences
\* of sep, scanning left to right; an empty sep explodes s into its bytes
\* (every byte of the model's alphabet is one UTF-8 sequence)
RECURSIVE SplitFrom(_, _, _)
SplitFrom(s, sep, from) ==
    LET i == IndexFrom(s, sep, from)
    IN  IF i = 0
        THEN <<SubSeq(s, from, Len(s))>>
        ELSE <<SubSeq(s, from, i - 1)>> \o SplitFrom(s, sep, i + Len(sep))

Split(s, sep) ==
    IF sep = <<>>
    THEN [i \in 1..Len(s) |-> <<s[i]>>]
    ELSE SplitFrom(s, sep, 1)

\* ------------------------------------------------------------------ errors

NoErr == [e |-> "nil", arg |-> <<>>]
EOF == [e |-> "io.EOF", arg |-> <<>>]
ErrTruncatedLine == [e |-> "ErrTruncatedLine", arg |-> <<>>]
ErrInvalidSeparator == [e |-> "ErrInvalidSeparator", arg |-> <<>>]
ErrSeekingUnsupported == [e |-> "ErrSeekingUnsupported", arg |-> <<>>]
ErrorInvalidFieldType(name) == [e |-> "ErrorInvalidFieldType", arg |-> name]
ErrSyntax == [e |-> "strconv.ErrSyntax", arg |-> <<>>]
ErrRange == [e |-> "strconv.ErrRange", arg |-> <<>>]
\* ErrNoSuchField{field: name}
ErrNoSuchField(name) == [e |-> "ErrNoSuchField", arg |-> name]
\* bufio.ErrTooLong, the error of a bufio.Scanner whose line does not fit
\* its buffer
ErrTooLong == [e |-> "bufio.ErrTooLong", arg |-> <<>>]
\* a Go run-time panic (index or slice bounds out of range): the call does
\* not return
Panic == [e |-> "panic", arg |-> <<>>]

\* ------------------------------------------------------------------ Parser

\* The Parser's configured delimiter.
Tab == "\t"

\* Parser state after NewParser / NewSeekableParser over a stream.  pos is
\* the position of the next unread byte of the underlying stream as seen
\* through the bufio.Reader; row is the contents of the row buffer (nil is
\* <<>>) and buf tells which buffer p.row points to: the number of make(Row)
\* calls so far, 0 for nil.  A Row handed out is a slice of that buffer.
NewParser(seekable) ==
    [Delimiter |-> Tab, fh |-> seekable, pos |-> 1, row |-> <<>>, buf |-> 0, n |-> 0,
     offset |-> 0]

\* ReadBytes that leaves an unterminated rest of the stream unread
ReadBytes_KeepsRest(s, pos) ==
    LET nl == {i \in pos..Len(s) : s[i] = "\n"}
    IN  IF nl = {}
        THEN [line |-> SubSeq(s, pos, Len(s)), eof |-> TRUE, pos |-> pos]
        ELSE [line |-> SubSeq(s, pos, Min(nl)), eof |-> FALSE, pos |-> Min(nl) + 1]

\* bufio.Reader.ReadBytes('\n') at position pos of stream s: the bytes up to
\* and including the next newline, or the rest of the stream and io.EOF.
ReadBytes(s, pos) ==
    LET nl == {i \in pos..Len(s) : s[i] = "\n"}
    IN  IF nl = {}
        THEN [line |-> SubSeq(s, pos, Len(s)), eof |-> TRUE, pos |-> Len(s) + 1]
        ELSE [line |-> SubSeq(s, pos, Min(nl)), eof |-> FALSE, pos |-> Min(nl) + 1]

\* The final column of a line: (\r)\n stripped.  start is the 1-based
\* position after the last delimiter.  line[end] with end = -1 (a lone
\* newline) is an index out of range.
FinalColumn(line, start) ==
    LET end0 == Len(line) - 1
        end1 == IF line[end0 + 1] = "\n" THEN end0 - 1 ELSE end0
    IN  IF end1 < 0
        THEN [panic |-> TRUE, col |-> <<>>]
        ELSE LET end2 == IF line[end1 + 1] = "\r" THEN end1 - 1 ELSE end1
             IN  [panic |-> FALSE, col |-> SubSeq(line, start, end2 + 1)]

\* eofError without the truncation test: every end of stream is io.EOF
eofError_AlwaysEOF(line) == EOF

\* The error of Parser.Read when ReadBytes met the end of the stream: a
\* non-empty rest that does not begin with '#' is a truncated line, anything
\* else is io.EOF.
eofError(line) ==
    IF Len(line) # 0 /\ ~HasPrefix(line, <<"#">>) THEN ErrTruncatedLine ELSE EOF

\* advanceOffset that leaves the newline out of the count
advanceOffset_NoNewline(offset, line) == offset + Len(line) - 1

\* p.offset += uint64(len(line))
advanceOffset(offset, line) == offset + Len(line)

\* a Read that makes a row buffer for every line
rowBuffer_AlwaysFresh(p) == p.buf + 1

\* the buffer p.row points to after the latch test of Read: a fresh one
\* (make(Row, p.n)) when the latch was reset, the one it had otherwise
rowBuffer(p) == IF p.n = 0 THEN p.buf + 1 ELSE p.buf

\* bufio.MaxScanTokenSize, the longest line a bufio.Scanner takes (64 * 1024
\* bytes), scaled down to a length the lines of the model can exceed; only
\* the comparison of a line's length with it matters
MaxScanTokenSize == 32

\* The body of Parser.Read, rb being what ReadBytes returned.  Returns the
\* parser after the call, the row returned and the error (Panic when the
\* call panics); start records the byte offset of the stream at which the
\* line that was read begins.
splitLine(p, rb) ==
    LET line == rb.line
    IN  IF rb.eof
        THEN [p |-> [p EXCEPT !.pos = rb.pos],
              row |-> <<>>,
              start |-> p.pos - 1,
              err |-> eofError(line)]
        ELSE
        LET k == Count(line, p.Delimiter)
            n1 == IF p.n = 0 THEN k + 1 ELSE p.n
            \* make(Row, p.n): a fresh buffer of nil columns
            buf == IF p.n = 0 THEN [j \in 1..n1 |-> <<>>] ELSE p.row
            cap == Len(buf)
            start(j) == IF j = 1 THEN 1 ELSE NthIndex(line, p.Delimiter, j - 1) + 1
            last == FinalColumn(line, start(k + 1))
            p1 == [p EXCEPT !.pos = rb.pos, !.offset = advanceOffset(p.offset, line),
                           !.n = n1, !.buf = rowBuffer(p)]
        IN  IF k >= cap \/ last.panic
            THEN \* p.row[n] with n = len(p.row), or line[-1]
                 [p |-> [p1 EXCEPT !.row =
                            [j \in 1..cap |->
                                IF j <= k
                                THEN SubSeq(line, start(j), NthIndex(line, p.Delimiter, j) - 1)
                                ELSE buf[j]]],
                  row |-> <<>>,
                  start |-> p.pos - 1,
                  err |-> Panic]
            ELSE LET row == [j \in 1..cap |->
                                IF j <= k
                                THEN SubSeq(line, start(j), NthIndex(line, p.Delimiter, j) - 1)
                                ELSE IF j = k + 1 THEN last.col
                                ELSE buf[j]]
                 IN  [p |-> [p1 EXCEPT !.row = row], row |-> row, start |-> p.pos - 1,
                      err |-> NoErr]

\* a Read that takes no line longer than a bufio.Scanner would
ParserRead_LimitsLine(s, p) ==
    IF Len(ReadBytes(s, p.pos).line) > MaxScanTokenSize
    THEN [p |-> p, row |-> <<>>, start |-> p.pos - 1, err |-> ErrTooLong]
    ELSE splitLine(p, ReadBytes(s, p.pos))

\* Parser.Read: ReadBytes takes a line of any length
ParserRead(s, p) == splitLine(p, ReadBytes(s, p.pos))

\* Parser.Current
Current(p) == p.row

\* ResetRow that clears the columns of the row buffer as well
ResetRow_ClearsRow(p) == [p EXCEPT !.n = 0, !.row = [j \in DOMAIN p.row |-> <<>>]]

\* Parser.ResetRow
ResetRow(p) == [p EXCEPT !.n = 0]

\* Seek that repositions the stream before it tests for seekability
ParserSeek_Repositions(p, offset) ==
    [p |-> [p EXCEPT !.pos = offset + 1],
     err |-> IF p.fh THEN NoErr ELSE ErrSeekingUnsupported]

\* Parser.Seek: repositions the stream and resets the bufio.Reader; the
\* latch n, the row buffer and offset are not touched.
ParserSeek(p, offset) ==
    IF ~p.fh
    THEN [p |-> p, err |-> ErrSeekingUnsupported]
    ELSE [p |-> [p EXCEPT !.pos = offset + 1], err |-> NoErr]

\* ------------------------------------------------------------------ Parser over bufio.Scanner

\* The Parser of parser.go, which reads lines with a bufio.Scanner and has
\* the Copy switch.  pos is the position of the next unread byte of the
\* stream; row, buf and n are as in the Parser above.
ScannerNewParser(copy) ==
    [Delimiter |-> Tab, Copy |-> copy, pos |-> 1, row |-> <<>>, buf |-> 0, n |-> 0]

\* dropCR of bufio.ScanLines
dropCR(data) ==
    IF data # <<>> /\ data[Len(data)] = "\r" THEN SubSeq(data, 1, Len(data) - 1) ELSE data

\* bufio.Scanner.Scan with the ScanLines split function, at position pos of
\* stream s: ok with the next line as token (its \n or \r\n dropped; an
\* unterminated rest of the stream is a token too), or not ok at the end of
\* the stream (err nil), or not ok with ErrTooLong when the line does not
\* fit a buffer of MaxScanTokenSize bytes.
Scan(s, pos) ==
    LET nl == {i \in pos..Len(s) : s[i] = "\n"}
        data == IF nl = {} THEN SubSeq(s, pos, Len(s)) ELSE SubSeq(s, pos, Min(nl) - 1)
    IN  IF pos > Len(s)
        THEN [ok |-> FALSE, token |-> <<>>, pos |-> pos, err |-> NoErr]
        ELSE IF Len(data) >= MaxScanTokenSize
        THEN [ok |-> FALSE, token |-> <<>>, pos |-> pos, err |-> ErrTooLong]
        ELSE [ok |-> TRUE, token |-> dropCR(data),
              pos |-> IF nl = {} THEN Len(s) + 1 ELSE Min(nl) + 1, err |-> NoErr]

\* a Copy branch that assigns the copy to the line of the function
scannerLine_Assigns(p, token) == token

\* the line the loop of Read splits: with Copy the copy of the token is
\* made in a variable that the if block declares for itself (line :=), and
\* the line of the function stays nil
scannerLine(p, token) == IF p.Copy THEN <<>> ELSE token

\* the body of Read once Scan has the token sc.token: the latch, the row
\* buffer (made at the latch without Copy, for every line with Copy), the
\* delimiter loop over line and the last column
scannerSplit(p, sc, line) ==
    LET n1 == IF p.n = 0 THEN Count(sc.token, p.Delimiter) + 1 ELSE p.n
        fresh == p.Copy \/ p.n = 0
        rowbuf == IF fresh THEN [j \in 1..n1 |-> <<>>] ELSE p.row
        cap == Len(rowbuf)
        k == Count(line, p.Delimiter)
        start(j) == IF j = 1 THEN 1 ELSE NthIndex(line, p.Delimiter, j - 1) + 1
        p1 == [p EXCEPT !.pos = sc.pos, !.n = n1,
                        !.buf = IF fresh THEN p.buf + 1 ELSE p.buf]
        row == [j \in 1..cap |->
                   IF j <= k THEN SubSeq(line, start(j), NthIndex(line, p.Delimiter, j) - 1)
                   ELSE IF j = k + 1 THEN SubSeq(line, start(k + 1), Len(line))
                   ELSE rowbuf[j]]
    IN  IF k >= cap
        THEN [p |-> [p1 EXCEPT !.row = row], row |-> <<>>, err |-> Panic]
        ELSE [p |-> [p1 EXCEPT !.row = row], row |-> row, err |-> NoErr]

\* Parser.Read of parser.go
ScannerParserRead(s, p) ==
    LET sc == Scan(s, p.pos)
    IN  IF ~sc.ok
        THEN [p |-> p, row |-> <<>>, err |-> IF sc.err # NoErr THEN sc.err ELSE EOF]
        ELSE scannerSplit(p, sc, scannerLine(p, sc.token))

\* Parser.ResetRow of parser.go
ScannerResetRow(p) == [p EXCEPT !.n = 0]

\* ------------------------------------------------------------------ header

\* spelled-out byte strings of the directive names and type names
B_hash == <<"#">>
B_close == <<"#", "c", "l", "o", "s", "e">>
B_separator == <<"#", "s", "e", "p", "a", "r", "a", "t", "o", "r">>
B_set_separator == <<"#", "s", "e", "t", "_", "s", "e", "p", "a", "r", "a", "t", "o", "r">>
B_unset_field == <<"#", "u", "n", "s", "e", "t", "_", "f", "i", "e", "l", "d">>
B_empty_field == <<"#", "e", "m", "p", "t", "y", "_", "f", "i", "e", "l", "d">>
B_fields == <<"#", "f", "i", "e", "l", "d", "s">>
B_types == <<"#", "t", "y", "p", "e", "s">>
B_path == <<"#", "p", "a", "t", "h">>

\* const ( String DataType = iota ... Subnet )
DataTypes ==
    {"String", "Time", "Addr", "Port", "Int", "Double", "Count", "Interval", "Bool",
     "Enum", "Subnet"}

\* dataTypeLookup: the #types name of each DataType
TypeName(dt) ==
    CASE dt = "String" -> <<"s", "t", "r", "i", "n", "g">>
      [] dt = "Time" -> <<"t", "i", "m", "e">>
      [] dt = "Addr" -> <<"a", "d", "d", "r">>
      [] dt = "Port" -> <<"p", "o", "r", "t">>
      [] dt = "Int" -> <<"i", "n", "t">>
      [] dt = "Double" -> <<"d", "o", "u", "b", "l", "e">>
      [] dt = "Count" -> <<"c", "o", "u", "n", "t">>
      [] dt = "Interval" -> <<"i", "n", "t", "e", "r", "v", "a", "l">>
      [] dt = "Bool" -> <<"b", "o", "o", "l">>
      [] dt = "Enum" -> <<"e", "n", "u", "m">>
      [] dt = "Subnet" -> <<"s", "u", "b", "n", "e", "t">>

\* readFieldType.  strings.Index returns -1 when there is no "[", and
\* s[start:] with start = -1 panics.
readFieldType(s0) ==
    LET isC == HasSuffix(s0, <<"]">>)
        start == IndexFrom(s0, <<"[">>, 1) - 1
        rest == SubSeq(s0, start + 1, Len(s0))
        end == IndexFrom(rest, <<"]">>, 1) - 1
        s == IF isC THEN SubSeq(s0, start + 2, start + end) ELSE s0
        hit == {dt \in DataTypes : TypeName(dt) = s}
    IN  IF isC /\ start = -1
        THEN [ft |-> [Type |-> "String", IsContainer |-> FALSE], err |-> Panic]
        ELSE IF hit # {}
        THEN [ft |-> [Type |-> CHOOSE dt \in hit : TRUE, IsContainer |-> isC], err |-> NoErr]
        ELSE [ft |-> [Type |-> "String", IsContainer |-> FALSE],
              err |-> ErrorInvalidFieldType(s)]

\* the #types loop of readHeader: stops at the first entry that fails
RECURSIVE readTypes(_, _)

\* one entry of the loop, r being what readFieldType returned for it
readTypesNext(ts, acc, r) ==
    IF r.err # NoErr
    THEN [types |-> acc, err |-> r.err]
    ELSE readTypes(Tail(ts), Append(acc, r.ft))

readTypes(ts, acc) ==
    IF ts = <<>>
    THEN [types |-> acc, err |-> NoErr]
    ELSE readTypesNext(ts, acc, readFieldType(Head(ts)))

\* value of one hex digit, 16 for any other byte (reverseHexTable)
HexVal(c) ==
    CASE c = "0" -> 0 [] c = "1" -> 1 [] c = "2" -> 2 [] c = "3" -> 3 [] c = "4" -> 4
      [] c = "5" -> 5 [] c = "6" -> 6 [] c = "7" -> 7 [] c = "8" -> 8 [] c = "9" -> 9
      [] c \in {"a", "A"} -> 10 [] c \in {"b", "B"} -> 11 [] c \in {"c", "C"} -> 12
      [] c \in {"d", "D"} -> 13 [] c \in {"e", "E"} -> 14 [] c \in {"f", "F"} -> 15
      [] OTHER -> 16

\* hex.DecodeString: the byte values (0..255) of the hex pairs; an error on
\* a non-hex byte or an odd length
HexDecodeString(s) ==
    IF (\E i \in 1..Len(s) : HexVal(s[i]) > 15) \/ Len(s) % 2 = 1
    THEN [bytes |-> <<>>, ok |-> FALSE]
    ELSE [bytes |-> [i \in 1..(Len(s) \div 2) |->
                        HexVal(s[2 * i - 1]) * 16 + HexVal(s[2 * i])],
          ok |-> TRUE]

\* The key transforms a caller installs: none (nil), the replacement of
\* every "." by "_" that the command-line tool and the tests install
\* ("dots"), and a function that puts "_" before the name ("under"), which
\* gives another name each time it is applied.
KeyTransforms == {"nil", "dots", "under"}

\* the caller's function f, for the transforms that are not nil
xformKey(kt, field) ==
    IF kt = "dots"
    THEN [i \in 1..Len(field) |-> IF field[i] = "." THEN "_" ELSE field[i]]
    ELSE <<"_">> \o field

\* readHeader that never calls the transform
applyKeyTransform_Skips(kt, field) == field

\* if keyTransform != nil { field = keyTransform(field) }
applyKeyTransform(kt, field) ==
    IF kt = "nil" THEN field ELSE xformKey(kt, field)

\* Header{}
EmptyHeader ==
    [Separator |-> 0, Fields |-> <<>>, Types |-> <<>>, Unset |-> <<>>, Empty |-> <<>>,
     SetSeparator |-> <<>>, Path |-> <<>>, Length |-> 0]

\* a #types directive that leaves header.Types as it was
setTypes_Keeps(header, r) == [header |-> header, err |-> r.err]

\* header.Types and the error after the #types loop returned r
setTypes(header, r) == [header |-> [header EXCEPT !.Types = r.types], err |-> r.err]

\* One directive row applied to the header (the body of readHeader's loop
\* after the '#' test).  A directive without its argument column indexes
\* row[1] out of range.
applyDirective(header, row, kt) ==
    LET name == row[1]
        args == Tail(row)
    IN  IF HasPrefix(name, B_separator)
        THEN LET parts == Split(name, <<" ">>)
             IN  IF Len(parts) < 2 \/ Len(parts[2]) < 2
                 THEN [header |-> header, err |-> Panic]
                 ELSE LET dec == HexDecodeString(SubSeq(parts[2], 3, Len(parts[2])))
                      IN  IF ~dec.ok
                          THEN [header |-> header, err |-> ErrInvalidSeparator]
                          ELSE IF Len(dec.bytes) = 0
                          THEN [header |-> header, err |-> Panic]
                          ELSE [header |-> [header EXCEPT !.Separator = dec.bytes[1]],
                                err |-> NoErr]
        ELSE IF name \in {B_set_separator, B_unset_field, B_empty_field, B_path} /\ args = <<>>
        THEN [header |-> header, err |-> Panic]
        ELSE IF name = B_set_separator
        THEN [header |-> [header EXCEPT !.SetSeparator = @ \o args[1]], err |-> NoErr]
        ELSE IF name = B_unset_field
        THEN [header |-> [header EXCEPT !.Unset = @ \o args[1]], err |-> NoErr]
        ELSE IF name = B_empty_field
        THEN [header |-> [header EXCEPT !.Empty = @ \o args[1]], err |-> NoErr]
        ELSE IF name = B_fields
        THEN [header |-> [header EXCEPT !.Fields =
                            @ \o [i \in 1..Len(args) |-> applyKeyTransform(kt, args[i])]],
              err |-> NoErr]
        ELSE IF name = B_types
        THEN setTypes(header, readTypes(args, header.Types))
        ELSE IF name = B_path
        THEN [header |-> [header EXCEPT !.Path = args[1]], err |-> NoErr]
        ELSE [header |-> header, err |-> NoErr]

\* readHeader: reads rows until the first one whose first column does not
\* begin with '#'.  Returns the parser after the call, the header (hasHeader
\* FALSE for a nil *Header) and the error.
RECURSIVE readHeaderLoop(_, _, _, _)

\* a loop that makes the declared separator the parser's Delimiter
readHeaderNext_SetsDelimiter(s, p1, start, d, kt) ==
    IF d.err # NoErr
    THEN [p |-> p1, hasHeader |-> FALSE, header |-> EmptyHeader, start |-> start,
          err |-> d.err]
    ELSE readHeaderLoop(s, [p1 EXCEPT !.Delimiter =
                                  IF d.header.Separator = 44 THEN "," ELSE Tab],
                        d.header, kt)

\* the end of one turn of the loop, d being what the directive row did to
\* the header: its error returned, or the next turn
readHeaderNext(s, p1, start, d, kt) ==
    IF d.err # NoErr
    THEN [p |-> p1, hasHeader |-> FALSE, header |-> EmptyHeader, start |-> start,
          err |-> d.err]
    ELSE readHeaderLoop(s, p1, d.header, kt)

\* one turn of the loop, r being what parser.Read() returned and h1 the
\* header with its Length set to the offset before that read
readHeaderRow(s, h1, r, kt) ==
    IF r.err # NoErr
    THEN [p |-> r.p, hasHeader |-> FALSE, header |-> EmptyHeader, start |-> r.start,
          err |-> r.err]
    ELSE IF ~HasPrefix(r.row[1], B_hash)
    THEN [p |-> ResetRow(r.p), hasHeader |-> TRUE, header |-> h1, start |-> r.start,
          err |-> NoErr]
    ELSE readHeaderNext(s, ResetRow(r.p), r.start, applyDirective(h1, r.row, kt), kt)

readHeaderLoop(s, p, header, kt) ==
    readHeaderRow(s, [header EXCEPT !.Length = p.offset], ParserRead(s, p), kt)

readHeader(s, p, kt) == readHeaderLoop(s, p, EmptyHeader, kt)

\* ------------------------------------------------------------------ values

\* interface{} values.  A uint16 carries its number; 64-bit integers carry
\* their sign and decimal digits (no leading zero), floats their sign,
\* integer digits and fraction digits (no leading, no trailing zero), so
\* that no 64-bit arithmetic is needed to tell two values apart.
NilV == [t |-> "nil"]
StringV(b) == [t |-> "string", s |-> b]
Uint16V(n) == [t |-> "uint16", v |-> n]
Uint64V(d) == [t |-> "uint64", digits |-> d]
Int64V(neg, d) == [t |-> "int64", neg |-> neg, digits |-> d]
Float64V(neg, ip, fp) == [t |-> "float64", neg |-> neg, int |-> ip, frac |-> fp]
BoolV(b) == [t |-> "bool", b |-> b]
ListV(items) == [t |-> "list", items |-> items]

Digits == {"0", "1", "2", "3", "4", "5", "6", "7", "8", "9"}

DigitVal(c) == HexVal(c)

IsDigits(s) == \A i \in 1..Len(s) : s[i] \in Digits

\* digits without leading zeros ("0" becomes <<>>)
RECURSIVE StripLeadingZeros(_)
StripLeadingZeros(d) ==
    IF d # <<>> /\ Head(d) = "0" THEN StripLeadingZeros(Tail(d)) ELSE d

RECURSIVE StripTrailingZeros(_)
StripTrailingZeros(d) ==
    IF d # <<>> /\ d[Len(d)] = "0" THEN StripTrailingZeros(SubSeq(d, 1, Len(d) - 1)) ELSE d

\* a > b for two digit strings without leading zeros
RECURSIVE DigitsGT(_, _)
DigitsGT(a, b) ==
    IF Len(a) # Len(b) THEN Len(a) > Len(b)
    ELSE IF a = <<>> THEN FALSE
    ELSE IF Head(a) # Head(b) THEN DigitVal(Head(a)) > DigitVal(Head(b))
    ELSE DigitsGT(Tail(a), Tail(b))

\* 1<<16 - 1
MaxUint16 == 65535
\* 1<<64 - 1 and 1<<63, as digits
MaxUint64Digits ==
    <<"1", "8", "4", "4", "6", "7", "4", "4", "0", "7", "3", "7", "0", "9", "5", "5", "1",
      "6", "1", "5">>
Cutoff63Digits ==
    <<"9", "2", "2", "3", "3", "7", "2", "0", "3", "6", "8", "5", "4", "7", "7", "5", "8",
      "0", "8">>

\* strconv.ParseUint(s, 10, 16), scanning left to right: the first byte
\* that is no digit is a syntax error (value 0), the first digit that takes
\* the value over 65535 is a range error (value 65535).
RECURSIVE ParseUint16From(_, _, _)
ParseUint16From(s, i, n) ==
    IF i > Len(s) THEN [v |-> n, err |-> NoErr]
    ELSE IF s[i] \notin Digits THEN [v |-> 0, err |-> ErrSyntax]
    ELSE IF n * 10 + DigitVal(s[i]) > MaxUint16 THEN [v |-> MaxUint16, err |-> ErrRange]
    ELSE ParseUint16From(s, i + 1, n * 10 + DigitVal(s[i]))

ParseUint16(s) ==
    IF s = <<>> THEN [v |-> 0, err |-> ErrSyntax] ELSE ParseUint16From(s, 1, 0)

\* strconv.ParseUint(s, 10, 64) on digits: the error is that of the first
\* offending byte, a non-digit or the digit that takes the value over 1<<64-1
ParseUint64(s) ==
    LET bad == {i \in 1..Len(s) : s[i] \notin Digits}
        upto == IF bad = {} THEN Len(s) ELSE Min(bad) - 1
        over == {i \in 1..upto :
                    DigitsGT(StripLeadingZeros(SubSeq(s, 1, i)), MaxUint64Digits)}
    IN  IF s = <<>> THEN [digits |-> <<>>, err |-> ErrSyntax]
        ELSE IF over # {} THEN [digits |-> MaxUint64Digits, err |-> ErrRange]
        ELSE IF bad # {} THEN [digits |-> <<>>, err |-> ErrSyntax]
        ELSE [digits |-> StripLeadingZeros(s), err |-> NoErr]

\* strconv.ParseInt(s, 10, 64): an optional sign, then ParseUint; the
\* magnitude may reach 1<<63 - 1, or 1<<63 when negative
ParseInt64(s) ==
    LET signed == s # <<>> /\ s[1] \in {"+", "-"}
        neg == s # <<>> /\ s[1] = "-"
        un == ParseUint64(IF signed THEN Tail(s) ELSE s)
    IN  IF s = <<>> THEN [neg |-> FALSE, digits |-> <<>>, err |-> ErrSyntax]
        ELSE IF un.err = ErrSyntax THEN [neg |-> FALSE, digits |-> <<>>, err |-> ErrSyntax]
        ELSE IF un.err = ErrRange
                \/ (~neg /\ ~DigitsGT(Cutoff63Digits, un.digits))
                \/ (neg /\ DigitsGT(un.digits, Cutoff63Digits))
        THEN [neg |-> neg,
              digits |-> IF neg THEN Cutoff63Digits
                         ELSE <<"9", "2", "2", "3", "3", "7", "2", "0", "3", "6", "8", "5",
                                "4", "7", "7", "5", "8", "0", "7">>,
              err |-> ErrRange]
        ELSE [neg |-> neg /\ un.digits # <<>>, digits |-> un.digits, err |-> NoErr]

\* strconv.ParseFloat(s, 64) on the decimal notation without exponent:
\* [+-] digits [. digits] or [+-] . digits.  Exact for texts of at most 15
\* significant digits that hold no exponent, no hexadecimal prefix, no
\* underscore and do not spell inf, infinity or nan; the inputs of the
\* model are such texts.
ParseFloat64(s) ==
    LET signed == s # <<>> /\ s[1] \in {"+", "-"}
        neg == s # <<>> /\ s[1] = "-"
        body == IF signed THEN Tail(s) ELSE s
        dot == IndexFrom(body, <<".">>, 1)
        ip == IF dot = 0 THEN body ELSE SubSeq(body, 1, dot - 1)
        fp == IF dot = 0 THEN <<>> ELSE SubSeq(body, dot + 1, Len(body))
    IN  IF IsDigits(ip) /\ IsDigits(fp) /\ Len(ip) + Len(fp) > 0
        THEN [v |-> Float64V(neg, StripLeadingZeros(ip), StripTrailingZeros(fp)),
              err |-> NoErr]
        ELSE [v |-> Float64V(FALSE, <<>>, <<>>), err |-> ErrSyntax]

\* ToString
ToString(b) == [v |-> StringV(b), err |-> NoErr]

\* a ToUint16 that returns the number without the range error
uint16Of_DropsRange(r) ==
    [v |-> Uint16V(r.v % 65536), err |-> IF r.err = ErrRange THEN NoErr ELSE r.err]

\* ToUint16: uint16(i) together with the error of ParseUint
uint16Of(r) == [v |-> Uint16V(r.v % 65536), err |-> r.err]
ToUint16(b) == uint16Of(ParseUint16(b))

\* ToInt64
int64Of(r) == [v |-> Int64V(r.neg, r.digits), err |-> r.err]
ToInt64(b) == int64Of(ParseInt64(b))

\* ToUint64
uint64Of(r) == [v |-> Uint64V(r.digits), err |-> r.err]
ToUint64(b) == uint64Of(ParseUint64(b))

\* ToFloat64
ToFloat64(b) == ParseFloat64(b)

\* ToBool
ToBool(b) == [v |-> BoolV(b = <<"T">>), err |-> NoErr]

\* ValueConverters[dt], as filled by init()
ValueConverter(dt, b) ==
    CASE dt \in {"String", "Addr", "Enum", "Subnet"} -> ToString(b)
      [] dt \in {"Time", "Double", "Interval"} -> ToFloat64(b)
      [] dt = "Port" -> ToUint16(b)
      [] dt = "Int" -> ToInt64(b)
      [] dt = "Count" -> ToUint64(b)
      [] dt = "Bool" -> ToBool(b)

\* the container loop of readValue and of ValueByIndex: every piece
\* converted in order, the first failure aborting the column with (nil, err)
RECURSIVE convertParts(_, _, _)

\* a loop that stores every value in front of those it has
convertPartsNext_InFront(dt, parts, acc, r) ==
    IF r.err # NoErr
    THEN [v |-> NilV, err |-> r.err]
    ELSE convertParts(dt, Tail(parts), <<r.v>> \o acc)

\* one piece of the loop, r being what the converter returned for it
convertPartsNext(dt, parts, acc, r) ==
    IF r.err # NoErr
    THEN [v |-> NilV, err |-> r.err]
    ELSE convertParts(dt, Tail(parts), Append(acc, r.v))

convertParts(dt, parts, acc) ==
    IF parts = <<>>
    THEN [v |-> ListV(acc), err |-> NoErr]
    ELSE convertPartsNext(dt, parts, acc, ValueConverter(dt, Head(parts)))

\* readValue in which the Empty sentinel of a container column gives an
\* empty list instead of nil
readValue_EmptyList(header, row, i) ==
    IF i > Len(row) THEN [v |-> NilV, err |-> ErrTruncatedLine]
    ELSE IF row[i] = header.Unset THEN [v |-> NilV, err |-> NoErr]
    ELSE IF i > Len(header.Types) THEN [v |-> NilV, err |-> Panic]
    ELSE IF row[i] = header.Empty
    THEN [v |-> IF header.Types[i].IsContainer THEN ListV(<<>>) ELSE NilV, err |-> NoErr]
    ELSE IF header.Types[i].IsContainer
    THEN convertParts(header.Types[i].Type, Split(row[i], header.SetSeparator), <<>>)
    ELSE ValueConverter(header.Types[i].Type, row[i])

\* Reader.readValue for the 1-based column i (idx = i - 1).  Types[idx]
\* beyond the declared types is an index out of range.
readValue(header, row, i) ==
    IF i > Len(row) THEN [v |-> NilV, err |-> ErrTruncatedLine]
    ELSE IF row[i] = header.Unset THEN [v |-> NilV, err |-> NoErr]
    ELSE IF i > Len(header.Types) THEN [v |-> NilV, err |-> Panic]
    ELSE IF row[i] = header.Empty THEN [v |-> NilV, err |-> NoErr]
    ELSE IF header.Types[i].IsContainer
    THEN convertParts(header.Types[i].Type, Split(row[i], header.SetSeparator), <<>>)
    ELSE ValueConverter(header.Types[i].Type, row[i])

\* ------------------------------------------------------------------ LazyRecord

\* BytesByIndex without the Empty test
BytesByIndex_NoEmpty(header, row, i) ==
    IF i > Len(row) THEN [isNil |-> TRUE, buf |-> <<>>, err |-> ErrTruncatedLine]
    ELSE IF row[i] = header.Unset THEN [isNil |-> TRUE, buf |-> <<>>, err |-> NoErr]
    ELSE [isNil |-> FALSE, buf |-> row[i], err |-> NoErr]

\* LazyRecord.BytesByIndex: the column, or nil (isNil) for a sentinel
BytesByIndex(header, row, i) ==
    IF i > Len(row) THEN [isNil |-> TRUE, buf |-> <<>>, err |-> ErrTruncatedLine]
    ELSE IF row[i] = header.Unset THEN [isNil |-> TRUE, buf |-> <<>>, err |-> NoErr]
    ELSE IF row[i] = header.Empty
    THEN IF i > Len(header.Types)
         THEN [isNil |-> TRUE, buf |-> <<>>, err |-> Panic]
         ELSE [isNil |-> TRUE, buf |-> <<>>, err |-> NoErr]
    ELSE [isNil |-> FALSE, buf |-> row[i], err |-> NoErr]

\* LazyRecord.ValueByIndex
ValueByIndex(header, row, i) ==
    LET b == BytesByIndex(header, row, i)
    IN  IF b.err # NoErr THEN [v |-> NilV, err |-> b.err]
        ELSE IF b.isNil THEN [v |-> NilV, err |-> NoErr]
        ELSE IF i > Len(header.Types) THEN [v |-> NilV, err |-> Panic]
        ELSE IF header.Types[i].IsContainer
        THEN convertParts(header.Types[i].Type, Split(b.buf, header.SetSeparator), <<>>)
        ELSE ValueConverter(header.Types[i].Type, b.buf)

\* BytesByName that takes the zero value of the map for a missing name
BytesByName_ZeroIndex(fieldIndex, header, row, field) ==
    BytesByIndex(header, row,
                 IF field \in DOMAIN fieldIndex THEN fieldIndex[field] + 1 ELSE 1)

\* LazyRecord.BytesByName: fieldIndex is the map of the record's reader
BytesByName(fieldIndex, header, row, field) ==
    IF field \notin DOMAIN fieldIndex
    THEN [isNil |-> TRUE, buf |-> <<>>, err |-> ErrNoSuchField(field)]
    ELSE BytesByIndex(header, row, fieldIndex[field] + 1)

\* LazyRecord.ValueByName
ValueByName(fieldIndex, header, row, field) ==
    IF field \notin DOMAIN fieldIndex
    THEN [v |-> NilV, err |-> ErrNoSuchField(field)]
    ELSE ValueByIndex(header, row, fieldIndex[field] + 1)

\* ------------------------------------------------------------------ readers

Max(S) == CHOOSE x \in S : \A y \in S : x >= y

\* A Reader or LazyReader after NewReader / NewSeekableReader /
\* NewLazyReader / NewLazySeekableReader: its parser, its header (nil while
\* hasHeader is FALSE), the lazy reader's fieldIndex and recordOffset.
NewReader(seekable) ==
    [parser |-> NewParser(seekable), hasHeader |-> FALSE, header |-> EmptyHeader,
     fieldIndex |-> <<>>, recordOffset |-> 0]

\* a fieldIndex that numbers the fields from 1
makeFieldIndex_FromOne(fields) ==
    [name \in {fields[i] : i \in 1..Len(fields)} |->
        Max({i \in 1..Len(fields) : fields[i] = name})]

\* the fieldIndex map built by LazyReader.Read: name -> index (0-based), the
\* last one winning for a repeated name
makeFieldIndex(fields) ==
    [name \in {fields[i] : i \in 1..Len(fields)} |->
        Max({i \in 1..Len(fields) : fields[i] = name}) - 1]

\* The record loop of Reader.Read: every declared field converted in
\* order, the first error returned instead of a record; with omitEmpty nil
\* values get no key.
\* a record loop that keeps the keys of nil values whatever omitEmpty says
recordOf_KeepsNil(header, vals, omitEmpty) ==
    LET nf == Len(header.Fields)
        bad == {i \in 1..nf : vals[i].err # NoErr}
    IN  IF bad # {}
        THEN [hasRec |-> FALSE, rec |-> <<>>, err |-> vals[Min(bad)].err]
        ELSE [hasRec |-> TRUE,
              rec |-> [name \in {header.Fields[i] : i \in 1..nf} |->
                          vals[Max({i \in 1..nf : header.Fields[i] = name})].v],
              err |-> NoErr]

\* the record the loop builds from the results vals of readValue
recordOf(header, vals, omitEmpty) ==
    LET nf == Len(header.Fields)
        bad == {i \in 1..nf : vals[i].err # NoErr}
        kept == {i \in 1..nf : ~omitEmpty \/ vals[i].v # NilV}
    IN  IF bad # {}
        THEN [hasRec |-> FALSE, rec |-> <<>>, err |-> vals[Min(bad)].err]
        ELSE [hasRec |-> TRUE,
              rec |-> [name \in {header.Fields[i] : i \in kept} |->
                          vals[Max({i \in kept : header.Fields[i] = name})].v],
              err |-> NoErr]

makeRecord(header, row, omitEmpty) ==
    recordOf(header, [i \in 1..Len(header.Fields) |-> readValue(header, row, i)],
             omitEmpty)

\* What a call returned: the error (NoErr, or Panic when it did not
\* return), the record of an eager Read (a map from field name to value),
\* the row a record was made from (the LazyRecord's row), the byte offset
\* at which the line of that row begins in the stream, and (after) the
\* offset of the successful Seek the Read directly followed, or -1.
NoResult ==
    [op |-> "none", arg |-> 0, err |-> NoErr, hasRec |-> FALSE, rec |-> <<>>, row |-> <<>>,
     start |-> 0, after |-> -1]

\* Reader.Read (mode "eager") and LazyReader.Read (mode "lazy") on stream
\* s: the reader after the call and what the call returned.
\* the first Read of a reader (r.header == nil), h being what readHeader
\* returned: the reader after it, the error, and the row parser.Current()
\* gives
firstRow(rd, cfg, h) ==
    [rd |-> IF h.err # NoErr
            THEN [rd EXCEPT !.parser = h.p]
            ELSE [rd EXCEPT !.parser = h.p, !.hasHeader = TRUE, !.header = h.header,
                            !.fieldIndex = IF cfg.mode = "lazy"
                                           THEN makeFieldIndex(h.header.Fields)
                                           ELSE <<>>,
                            !.recordOffset = h.header.Length],
     err |-> h.err, row |-> Current(h.p), start |-> h.start]

\* a later Read that leaves the parser where it was
nextRow_Rereads(rd, r) ==
    [rd |-> [rd EXCEPT !.recordOffset = rd.parser.offset],
     err |-> r.err, row |-> r.row, start |-> r.start]

\* a later Read that forgets the header it has
nextRow_DropsHeader(rd, r) ==
    [rd |-> [rd EXCEPT !.recordOffset = rd.parser.offset, !.parser = r.p,
                       !.hasHeader = FALSE],
     err |-> r.err, row |-> r.row, start |-> r.start]

\* a later Read, r being what parser.Read() returned: recordOffset is the
\* parser's offset before that read
nextRow(rd, r) ==
    [rd |-> [rd EXCEPT !.recordOffset = rd.parser.offset, !.parser = r.p],
     err |-> r.err, row |-> r.row, start |-> r.start]

\* what Read returns without a record
readResult(x) ==
    [op |-> "Read", arg |-> 0, err |-> x.err, hasRec |-> FALSE, rec |-> <<>>,
     row |-> <<>>, start |-> x.start, after |-> -1]

\* an end of Read that leaves the reader as it was when a column fails
recordResult_KeepsRow(rd, x, m) ==
    IF m.err # NoErr
    THEN [rd |-> rd, out |-> [readResult(x) EXCEPT !.err = m.err]]
    ELSE [rd |-> x.rd,
          out |-> [readResult(x) EXCEPT !.err = m.err, !.hasRec = m.hasRec, !.rec = m.rec,
                                        !.row = IF m.hasRec THEN x.row ELSE <<>>]]

\* the end of Reader.Read, m being the outcome of the record loop on row x.row
recordResult(rd, x, m) ==
    IF m.err = Panic
    THEN [rd |-> rd, out |-> [readResult(x) EXCEPT !.err = Panic]]
    ELSE [rd |-> x.rd,
          out |-> [readResult(x) EXCEPT !.err = m.err, !.hasRec = m.hasRec, !.rec = m.rec,
                                        !.row = IF m.hasRec THEN x.row ELSE <<>>]]

\* Read once the row is there (x: the reader, the error, the row and where
\* its line begins): the error returned, io.EOF on the #close row, or the
\* record
rowResult(rd, cfg, x) ==
    IF x.err = Panic THEN [rd |-> rd, out |-> readResult(x)]
    ELSE IF x.err # NoErr THEN [rd |-> x.rd, out |-> readResult(x)]
    ELSE IF HasPrefix(x.row[1], B_close)
    THEN [rd |-> x.rd, out |-> [readResult(x) EXCEPT !.err = EOF]]
    ELSE IF cfg.mode = "lazy"
    THEN [rd |-> x.rd, out |-> [readResult(x) EXCEPT !.hasRec = TRUE, !.row = x.row]]
    ELSE recordResult(rd, x, makeRecord(x.rd.header, x.row, cfg.omitEmpty))

ReadStep(s, rd, cfg) ==
    rowResult(rd, cfg,
              IF rd.hasHeader
              THEN nextRow(rd, ParserRead(s, rd.parser))
              ELSE firstRow(rd, cfg,
                            readHeader(s, rd.parser,
                                       IF cfg.mode = "eager" THEN cfg.kt ELSE "nil")))

\* a Seek that resets the column-count latch as well
SeekStep_ResetsRow(rd, offset) ==
    LET r == ParserSeek(rd.parser, offset)
    IN  [rd |-> [rd EXCEPT !.parser = ResetRow(r.p)],
         out |-> [NoResult EXCEPT !.op = "Seek", !.arg = offset, !.err = r.err]]

\* Reader.Seek and LazyReader.Seek: Parser.Seek and nothing else
SeekStep(rd, offset) ==
    LET r == ParserSeek(rd.parser, offset)
    IN  [rd |-> [rd EXCEPT !.parser = r.p],
         out |-> [NoResult EXCEPT !.op = "Seek", !.arg = offset, !.err = r.err]]

\* Reader.Offset and LazyReader.Offset
Offset(rd) == rd.recordOffset

\* ------------------------------------------------------------------ input streams

\* bounds of the model: fields declared, data rows, Seek calls; a caller
\* makes at most two Reads more than there are data rows
MaxFields == 2
MaxRows == 3
MaxSeeks == 1
MaxCalls == MaxRows + 2

RECURSIVE Join(_, _)
Join(cols, d) ==
    IF Len(cols) = 0 THEN <<>>
    ELSE IF Len(cols) = 1 THEN cols[1]
    ELSE cols[1] \o <<d>> \o Join(Tail(cols), d)

RECURSIVE Concat(_)
Concat(ss) == IF ss = <<>> THEN <<>> ELSE Head(ss) \o Concat(Tail(ss))

LF == <<"\n">>
CRLF == <<"\r", "\n">>

\* what follows the name on the #separator line: a space and the payload,
\* \x09 or \x2C
HexTab == <<" ", "\\", "x", "0", "9">>
HexComma == <<" ", "\\", "x", "2", "C">>

B_comma == <<",">>
B_dash == <<"-">>
B_emptyMark == <<"(", "e", "m", "p", "t", "y", ")">>
B_stamp == <<"2", "0", "1", "9">>

\* The directive block of a log: separator (sep: the rest of its line after
\* the name), set separator, sentinels, path, open time, then #fields and
\* #types; every line ends with term.
HeaderLines(fields, types, term, sep) ==
    <<B_separator \o sep \o term,
      Join(<<B_set_separator, B_comma>>, Tab) \o term,
      Join(<<B_empty_field, B_emptyMark>>, Tab) \o term,
      Join(<<B_unset_field, B_dash>>, Tab) \o term,
      Join(<<B_path, <<"c", "o", "n", "n">>>>, Tab) \o term,
      Join(<<<<"#", "o", "p", "e", "n">>, B_stamp>>, Tab) \o term,
      Join(<<B_fields>> \o fields, Tab) \o term,
      Join(<<B_types>> \o types, Tab) \o term>>

\* An input is the description of a stream: the names of #fields, the texts
\* of #types, the data rows (each a sequence of columns), the line
\* terminator and the bytes that follow the last data row.
NumFields(in) == Len(in.fields)
NumRows(in) == Len(in.rows)

HeaderBytes(in) == Concat(HeaderLines(in.fields, in.types, in.term, in.sep))

RowLine(in, r) == Join(in.rows[r], Tab) \o in.term

StreamOf(in) ==
    HeaderBytes(in) \o Concat([r \in 1..Len(in.rows) |-> RowLine(in, r)]) \o in.tail

\* what may follow the data rows: nothing, the #close footer with or
\* without its newline, or a data line cut before its end
TailNone == <<>>
TailCloseCut == Join(<<B_close, B_stamp>>, Tab)
TailClose == TailCloseCut \o LF
TailCutRow == <<"z", "1", Tab, "z">>
Tails == {TailNone, TailClose, TailCloseCut, TailCutRow}

DigitChar(i) == CHOOSE c \in Digits : DigitVal(c) = i
RowLetter(r) == <<"a", "b", "c", "d", "e", "g", "h">>[r]

\* the column counts of n data rows under nf fields: every row has nf
\* columns, but for at most one row, which has fewer, or one more
RowShapes(nf, n) ==
    {[r \in 1..n |-> nf]}
    \cup {[r \in 1..n |-> IF r = odd THEN k ELSE nf] :
            odd \in 1..n, k \in (1..(nf + 1)) \ {nf}}

\* Streams that vary in shape: 1..MaxFields string fields and up to MaxRows
\* data rows shaped as RowShapes says; column j of row r holds the two
\* bytes RowLetter(r), DigitChar(j), so that no two columns of a stream
\* are equal.
ShapeInputsOf(nf) ==
    {[fields |-> [j \in 1..nf |-> <<"f", DigitChar(j)>>],
      types |-> [j \in 1..nf |-> TypeName("String")],
      rows |-> [r \in 1..Len(ar) |-> [j \in 1..ar[r] |-> <<RowLetter(r), DigitChar(j)>>]],
      term |-> term,
      sep |-> HexTab,
      tail |-> tail] :
        ar \in UNION {RowShapes(nf, n) : n \in 0..MaxRows},
        term \in {LF, CRLF},
        tail \in Tails}

ShapeInputs == UNION {ShapeInputsOf(nf) : nf \in 1..MaxFields}

\* every declarable type: the eleven base types, bare or as a container
FieldTypeTexts ==
    {TypeName(dt) : dt \in DataTypes}
    \cup {<<"s", "e", "t", "[">> \o TypeName(dt) \o <<"]">> : dt \in DataTypes}

\* column texts: the two sentinels, the empty column, text, the boolean
\* literal, numbers in and out of the 16-bit range, a signed number, a
\* decimal fraction, and lists whose pieces convert or do not
ColumnTexts ==
    {B_dash, B_emptyMark, <<>>, <<"a">>, <<"T">>, <<"8", "0">>,
     <<"7", "0", "0", "0", "0">>, <<"-", "1", "0">>, <<"1", ".", "5">>,
     <<"a", ",", "b">>, <<"1", ",", "2", ".", "5">>, <<"8", ",", "x">>}

\* Streams that vary in content: two fields, the first of any declarable
\* type with any column text, the second a count; one data row and the
\* footer.
TypedInputs ==
    {[fields |-> <<<<"x">>, <<"i", "d", ".", "p">>>>,
      types |-> <<ft, TypeName("Count")>>,
      rows |-> <<<<v, w>>>>,
      term |-> LF,
      sep |-> HexTab,
      tail |-> TailClose] :
        ft \in FieldTypeTexts, v \in ColumnTexts, w \in {<<"7">>, B_dash}}

\* texts of #types that are no base-type name and no set[base]: unknown
\* names bare and in brackets, an empty inner name, other outer names
\* around a known name, and a closing bracket that no bracket opens
OddTypeTexts ==
    {<<"f", "o", "o">>,
     <<"S", "t", "r", "i", "n", "g">>,
     <<"s", "e", "t", "[", "f", "o", "o", "]">>,
     <<"v", "e", "c", "t", "o", "r", "[", "]">>,
     <<"v", "e", "c", "t", "o", "r", "[">> \o TypeName("String") \o <<"]">>,
     <<"[">> \o TypeName("Count") \o <<"]">>,
     <<"f", "o", "o", "]">>}

\* Streams whose #types directive holds one of the odd texts: two fields,
\* one data row and the footer.
OddTypeInputs ==
    {[fields |-> <<<<"x">>, <<"i", "d", ".", "p">>>>,
      types |-> <<ft, TypeName("Count")>>,
      rows |-> <<<<<<"a">>, <<"7">>>>>>,
      term |-> LF,
      sep |-> HexTab,
      tail |-> TailClose] :
        ft \in OddTypeTexts}

\* Streams for readers with a key transform: two string fields with dots
\* in their names, two data rows (the first with a plain column, an unset
\* column or a column holding a comma) and the footer; #separator names the tab or the comma (the
\* columns are tab-separated all the same: the Parser's Delimiter is fixed).
KeyInputs ==
    {[fields |-> <<<<"i", "d", ".", "p">>, <<"a", ".", "b", ".", "c">>>>,
      types |-> <<TypeName("String"), TypeName("String")>>,
      rows |-> <<<<<<"a", "1">>, w>>, <<<<"b", "1">>, <<"b", "2">>>>>>,
      term |-> LF,
      sep |-> sep,
      tail |-> TailClose] :
        w \in {<<"a", "2">>, B_dash, <<"x", ",", "y">>}, sep \in {HexTab, HexComma}}

\* rests of the #separator line that do not name a byte: nothing at all, a
\* space and nothing, no digits after \x, one digit, bytes that are no hex
\* digits, and two digits without the \x before them
OddSeparatorTexts ==
    {<<>>,
     <<" ">>,
     <<" ", "\\", "x">>,
     <<" ", "\\", "x", "9">>,
     <<" ", "\\", "x", "Z", "Z">>,
     <<" ", "\\", "x", "0", "g">>,
     <<" ", "0", "9">>}

\* Streams whose #separator line holds one of the odd texts, or \x09: two
\* fields, one data row and the footer.
SepInputs ==
    {[fields |-> <<<<"x">>, <<"i", "d", ".", "p">>>>,
      types |-> <<TypeName("String"), TypeName("Count")>>,
      rows |-> <<<<<<"a">>, <<"7">>>>>>,
      term |-> term,
      sep |-> sep,
      tail |-> TailClose] :
        sep \in OddSeparatorTexts \cup {HexTab}, term \in {LF, CRLF}}

\* texts of a port column: numbers at and around the ends of the 16-bit
\* range, with leading zeros, with a sign, with a byte that is no digit,
\* and the empty text
PortTexts ==
    {<<"0">>, <<"8", "0">>, <<"0", "0", "8", "0">>, <<"6", "5", "5", "3", "5">>,
     <<"6", "5", "5", "3", "6">>, <<"7", "0", "0", "0", "0">>,
     <<"1", "3", "1", "1", "5", "2">>, <<"+", "8", "0">>, <<"-", "1", "0">>,
     <<"8", "x">>, <<"6", "5", "5", "3", "6", "x">>, <<>>}

\* Streams with a port column holding one of these texts: a port field and
\* a count field, one data row and the footer.
PortInputs ==
    {[fields |-> <<<<"x">>, <<"i", "d", ".", "p">>>>,
      types |-> <<TypeName("Port"), TypeName("Count")>>,
      rows |-> <<<<v, <<"7">>>>>>,
      term |-> LF,
      sep |-> HexTab,
      tail |-> TailClose] :
        v \in PortTexts}

\* const giantColumnSize = 128 * 1024: twice the scanner's limit
giantColumnSize == 2 * MaxScanTokenSize

\* giantInput: two string fields, a data row whose second column is
\* giantColumnSize bytes long, a row of ordinary length, and the footer
GiantInputs ==
    {[fields |-> <<<<"f", "1">>, <<"f", "2">>>>,
      types |-> <<TypeName("String"), TypeName("String")>>,
      rows |-> <<<<<<"a", "1">>, [i \in 1..giantColumnSize |-> "a"]>>,
                 <<<<"b", "1">>, <<"b", "2">>>>>>,
      term |-> term,
      sep |-> HexTab,
      tail |-> TailClose] :
        term \in {LF, CRLF}}

\* Streams in which one data row does not convert: a port or a set[count]
\* field and a count field, three data rows whose first column holds the
\* digit of the row, but for row k, which holds a text the type does not
\* take; then the footer.
ConvInputs ==
    {[fields |-> <<<<"x">>, <<"i", "d", ".", "p">>>>,
      types |-> <<ft, TypeName("Count")>>,
      rows |-> [r \in 1..3 |-> <<IF r = k THEN bad ELSE <<DigitChar(r)>>, <<DigitChar(r + 3)>>>>],
      term |-> LF,
      sep |-> HexTab,
      tail |-> TailClose] :
        ft \in {TypeName("Port"), <<"s", "e", "t", "[">> \o TypeName("Count") \o <<"]">>},
        k \in 1..3,
        bad \in {<<"7", "0", "0", "0", "0">>, <<"8", ",", "x">>}}

\* what a stream may hold after its #close footer: a data line, or the
\* first line of the log that was appended to it
AfterClose ==
    {<<"z", "1", Tab, "z", "2">> \o LF, B_separator \o HexTab \o LF}

\* Streams that go on after the footer: two string fields, one or two
\* well-formed data rows, the #close footer and one line more.
AfterCloseInputs ==
    {[fields |-> [j \in 1..2 |-> <<"f", DigitChar(j)>>],
      types |-> [j \in 1..2 |-> TypeName("String")],
      rows |-> [r \in 1..n |-> [j \in 1..2 |-> <<RowLetter(r), DigitChar(j)>>]],
      term |-> LF,
      sep |-> HexTab,
      tail |-> TailClose \o more] :
        n \in 1..2, more \in AfterClose}

\* ------------------------------------------------------------------ state

VARIABLES
    input,      \* the description the stream was rendered from
    stream,     \* the bytes of the underlying stream
    cfg,        \* which reader was built, and how: mode, omitEmpty, kt
    rd,         \* the reader (with its parser)
    last,       \* what the last call returned
    calls,      \* number of Read calls made
    seeks,      \* number of Seek calls made
    seen,       \* the (Offset(), row) pairs of the records returned so far
    sought,     \* the offset of a successful Seek no Read has followed yet, or -1
    held,       \* the LazyRecords the caller has kept, in the order of their Reads
    twin,       \* a second reader of the same kind, over twinStream
    twinLast    \* what the twin's last call returned

vars == <<input, stream, cfg, rd, last, calls, seeks, seen, sought, held, twin, twinLast>>

\* The twin reads the same stream with the newline of a final #close footer
\* removed (the same stream when it does not end so), call for call.
TwinStream(in) ==
    IF in.tail = TailClose THEN SubSeq(StreamOf(in), 1, Len(StreamOf(in)) - 1)
    ELSE StreamOf(in)

InitWith(in, c, seekable) ==
    /\ input = in
    /\ stream = StreamOf(in)
    /\ cfg = c
    /\ rd = NewReader(seekable)
    /\ last = NoResult
    /\ calls = 0
    /\ seeks = 0
    /\ seen = {}
    /\ sought = -1
    /\ held = <<>>
    /\ twin = NewReader(seekable)
    /\ twinLast = NoResult

Init ==
    \/ \E in \in ShapeInputs, mode \in {"eager", "lazy"} :
          InitWith(in, [mode |-> mode, omitEmpty |-> FALSE, kt |-> "nil"], TRUE)
    \/ \E in \in TypedInputs, mode \in {"eager", "lazy"}, omit \in BOOLEAN :
          /\ mode = "lazy" => ~omit
          /\ InitWith(in, [mode |-> mode, omitEmpty |-> omit, kt |-> "nil"], FALSE)
    \/ \E in \in OddTypeInputs, mode \in {"eager", "lazy"} :
          InitWith(in, [mode |-> mode, omitEmpty |-> FALSE, kt |-> "nil"], FALSE)
    \/ \E in \in KeyInputs, kt \in KeyTransforms, omit \in BOOLEAN :
          InitWith(in, [mode |-> "eager", omitEmpty |-> omit, kt |-> kt], FALSE)
    \/ \E in \in SepInputs, mode \in {"eager", "lazy"} :
          InitWith(in, [mode |-> mode, omitEmpty |-> FALSE, kt |-> "nil"], FALSE)
    \/ \E in \in PortInputs, mode \in {"eager", "lazy"} :
          InitWith(in, [mode |-> mode, omitEmpty |-> FALSE, kt |-> "nil"], FALSE)
    \/ \E in \in GiantInputs, mode \in {"eager", "lazy"} :
          InitWith(in, [mode |-> mode, omitEmpty |-> FALSE, kt |-> "nil"], FALSE)
    \/ \E in \in ConvInputs :
          InitWith(in, [mode |-> "eager", omitEmpty |-> FALSE, kt |-> "nil"], FALSE)
    \/ \E in \in AfterCloseInputs, mode \in {"eager", "lazy"} :
          InitWith(in, [mode |-> mode, omitEmpty |-> FALSE, kt |-> "nil"], FALSE)

\* ------------------------------------------------------------------ actions

\* A LazyRecord the caller keeps: row is a slice of the parser's row buffer
\* buf, own the columns it had when Read number call returned it.  What the record
\* shows is what the buffer holds; the parser writes to a buffer only while
\* p.row points to it.
heldAfter(h, p) == [h EXCEPT !.row = IF h.buf = p.buf THEN p.row ELSE h.row]

\* the kept records after Read number n, which left the parser as p and
\* returned out
heldRecords(hs, p, out, n) ==
    [i \in 1..Len(hs) |-> heldAfter(hs[i], p)]
    \o (IF out.hasRec
        THEN <<[call |-> n, buf |-> p.buf, own |-> out.row, row |-> out.row]>>
        ELSE <<>>)

\* r.Read() on the reader, and on its twin
Read ==
    /\ last.err # Panic
    /\ calls < MaxCalls
    /\ \E s \in {ReadStep(stream, rd, cfg)}, t \in {ReadStep(TwinStream(input), twin, cfg)} :
           /\ rd' = s.rd
           /\ last' = [s.out EXCEPT !.after = sought]
           /\ seen' = IF s.out.hasRec
                      THEN seen \cup {[off |-> Offset(s.rd), row |-> s.out.row]}
                      ELSE seen
           /\ held' = IF cfg.mode = "lazy"
                      THEN heldRecords(held, s.rd.parser, s.out, calls + 1)
                      ELSE held
           /\ twin' = IF twinLast.err = Panic THEN twin ELSE t.rd
           /\ twinLast' = IF twinLast.err = Panic THEN twinLast ELSE t.out
    /\ calls' = calls + 1
    /\ sought' = -1
    /\ UNCHANGED <<input, stream, cfg, seeks>>

\* the offset at which data row r of the input begins in its stream
RowOffset(in, r) ==
    Len(HeaderBytes(in)) + Len(Concat([q \in 1..(r - 1) |-> RowLine(in, q)]))

RowOffsets(in) == {RowOffset(in, r) : r \in 1..NumRows(in)}

\* the offsets a caller seeks to: the start of the stream, the header
\* length and the offsets Offset() has reported for records
SeekTargets ==
    {0} \cup (IF rd.hasHeader THEN {rd.header.Length} ELSE {}) \cup {x.off : x \in seen}

\* r.Seek(offset) on the reader, and on its twin
Seek(offset) ==
    /\ last.err # Panic
    /\ seeks < MaxSeeks
    /\ LET s == SeekStep(rd, offset)
           t == SeekStep(twin, offset)
       IN  /\ rd' = s.rd
           /\ last' = s.out
           /\ sought' = IF s.out.err = NoErr THEN offset ELSE sought
           /\ twin' = IF twinLast.err = Panic THEN twin ELSE t.rd
           /\ twinLast' = IF twinLast.err = Panic THEN twinLast ELSE t.out
    /\ seeks' = seeks + 1
    /\ UNCHANGED <<input, stream, cfg, calls, seen, held>>

Next ==
    \/ Read
    \/ \E offset \in SeekTargets : Seek(offset)

Spec == Init /\ [][Next]_vars

\* ------------------------------------------------------------------ two Parsers over a bufio.Scanner

\* the lines the Parsers of parser.go are given: one, two and three
\* columns, an empty line, and a line a Scanner does not take
ScanLineTexts ==
    {<<"a", "\t", "b">>, <<"c">>, <<>>, <<"d", "\t", "e", "\t", "f">>,
     [i \in 1..MaxScanTokenSize |-> "x"]}

MaxScanLines == 3
MaxResets == 2
MaxScanCalls == MaxScanLines + 1

\* streams of one to MaxScanLines lines ending in term, the last one without
\* its line ending when cut
ScanInputs ==
    {[lines |-> ls, term |-> term, cut |-> cut] :
        ls \in UNION {[1..n -> ScanLineTexts] : n \in 1..MaxScanLines},
        term \in {LF, CRLF},
        cut \in BOOLEAN}

ScanStreamOf(in) ==
    Concat([i \in 1..Len(in.lines) |->
               in.lines[i] \o (IF in.cut /\ i = Len(in.lines) THEN <<>> ELSE in.term)])

\* what a Read of a Parser returned, in the shape of the readers' results
scanResult(r) ==
    [NoResult EXCEPT !.op = "Read", !.err = r.err, !.hasRec = (r.err = NoErr), !.row = r.row]

\* rd is a Parser with Copy false and twin a Parser with Copy true, each
\* over a stream of its own with the same bytes; held are the rows the
\* caller keeps of the Parser with Copy.
ScanInit ==
    \E in \in ScanInputs :
        /\ input = in
        /\ stream = ScanStreamOf(in)
        /\ cfg = [mode |-> "parser", omitEmpty |-> FALSE, kt |-> "nil"]
        /\ rd = ScannerNewParser(FALSE)
        /\ twin = ScannerNewParser(TRUE)
        /\ last = NoResult
        /\ twinLast = NoResult
        /\ calls = 0
        /\ seeks = 0
        /\ seen = {}
        /\ sought = -1
        /\ held = <<>>

\* p.Read() on both Parsers.  No call follows a panic, nor ErrTooLong.
ScanRead ==
    /\ last.err \notin {Panic, ErrTooLong}
    /\ calls < MaxScanCalls
    /\ \E s \in {ScannerParserRead(stream, rd)}, t \in {ScannerParserRead(stream, twin)} :
           /\ rd' = s.p
           /\ last' = scanResult(s)
           /\ twin' = t.p
           /\ twinLast' = scanResult(t)
           /\ held' = heldRecords(held, t.p, scanResult(t), calls + 1)
    /\ calls' = calls + 1
    /\ UNCHANGED <<input, stream, cfg, seeks, seen, sought>>

\* p.ResetRow() on both Parsers, seeks counting the resets; a reset of a
\* latch that is not set changes nothing
ScanResetRow ==
    /\ last.err \notin {Panic, ErrTooLong}
    /\ seeks < MaxResets
    /\ rd.n # 0
    /\ rd' = ScannerResetRow(rd)
    /\ twin' = ScannerResetRow(twin)
    /\ seeks' = seeks + 1
    /\ UNCHANGED <<input, stream, cfg, last, twinLast, calls, seen, sought, held>>

ScanNext ==
    \/ ScanRead
    \/ ScanResetRow

ScanSpec == ScanInit /\ [][ScanNext]_vars

\* ------------------------------------------------------------------ what the input describes

HexDigits ==
    Digits \cup {"a", "b", "c", "d", "e", "f", "A", "B", "C", "D", "E", "F"}

\* the rest of the #separator line names a byte: a space, \x and two hex
\* digits
NamesAByte(sep) ==
    \E h1 \in HexDigits, h2 \in HexDigits : sep = <<" ", "\\", "x", h1, h2>>


\* every data row has as many columns as #fields has entries
WellFormedRows(in) == \A r \in 1..NumRows(in) : Len(in.rows[r]) = NumFields(in)

\* the value column j of data row r stands for, by the input's own
\* directives: absent for the two sentinels, otherwise the conversion by
\* the type declared for field j
ExpectedColumn(in, r, j) ==
    LET col == in.rows[r][j]
        ft == readFieldType(in.types[j]).ft
    IN  IF col \in {B_dash, B_emptyMark} THEN [v |-> NilV, err |-> NoErr]
        ELSE IF ft.IsContainer THEN convertParts(ft.Type, Split(col, B_comma), <<>>)
        ELSE ValueConverter(ft.Type, col)

\* every entry of #types is a type, and every column of every data row
\* converts
Convertible(in) ==
    /\ \A j \in 1..Len(in.types) : readFieldType(in.types[j]).err = NoErr
    /\ \A r \in 1..NumRows(in) : \A j \in 1..Len(in.rows[r]) :
          j <= NumFields(in) => ExpectedColumn(in, r, j).err = NoErr

\* the record data row r stands for (field names are distinct in every input)
ExpectedRecord(in, r) ==
    LET kept == {j \in 1..NumFields(in) :
                    ~cfg.omitEmpty \/ ExpectedColumn(in, r, j).v # NilV}
    IN  [name \in {applyKeyTransform(cfg.kt, in.fields[j]) : j \in kept} |->
            ExpectedColumn(in, r,
                CHOOSE j \in kept : applyKeyTransform(cfg.kt, in.fields[j]) = name).v]

\* the last call was a Read and it returned the record of data row r
ReturnedRow(r) ==
    /\ last.op = "Read"
    /\ last.err = NoErr
    /\ last.hasRec
    /\ last.row = input.rows[r]
    /\ cfg.mode = "eager" => last.rec = ExpectedRecord(input, r)

\* ------------------------------------------------------------------ claims

\* C1: for every well-formed stream (directives, n data rows of exactly as
\* many columns as #fields has entries, the #close footer line), the k-th
\* Read returns the record of data row k for k <= n, and the (n+1)-th Read
\* returns io.EOF; no call fails.
C1_WellFormedStreamReadsAllRows ==
    (/\ seeks = 0
     /\ last.op = "Read"
     /\ input.tail = TailClose
     /\ WellFormedRows(input)
     /\ Convertible(input))
    => /\ calls <= NumRows(input) => ReturnedRow(calls)
       /\ calls = NumRows(input) + 1 => last.err = EOF
       /\ last.err # Panic

\* C2: when the stream ends in the middle of a data line, the k-th Read
\* returns the record of data row k for every complete data row, the Read
\* after the last one returns the truncated-line error and no record, and
\* no record ever holds a column of the cut line.
C2_TruncatedTailIsReported ==
    /\ (/\ seeks = 0
        /\ last.op = "Read"
        /\ input.tail = TailCutRow
        /\ WellFormedRows(input)
        /\ Convertible(input))
       => /\ calls <= NumRows(input) => ReturnedRow(calls)
          /\ calls = NumRows(input) + 1 => (last.err = ErrTruncatedLine /\ ~last.hasRec)
    /\ (input.tail = TailCutRow /\ last.hasRec)
       => \A i \in 1..Len(last.row) : last.row[i] \notin {<<"z", "1">>, <<"z">>}

C2_Witness ==
    /\ input.tail = TailCutRow
    /\ WellFormedRows(input)
    /\ NumRows(input) >= 2
    /\ seeks = 0
    /\ calls = NumRows(input) + 1
    /\ last.err = ErrTruncatedLine

\* C3: a data row with fewer columns than #fields has entries, whether it
\* is the first, the second or a later data row (the rows before it being
\* well formed), makes the eager Read return the truncated-line error, and
\* makes BytesByIndex and ValueByIndex of the lazy record return it at every
\* position the row does not have.
C3_ShortRowIsTruncatedLine ==
    (/\ seeks = 0
     /\ last.op = "Read"
     /\ calls \in 1..NumRows(input)
     /\ \A r \in 1..(calls - 1) : Len(input.rows[r]) = NumFields(input)
     /\ Len(input.rows[calls]) < NumFields(input))
    => /\ cfg.mode = "eager" => (last.err = ErrTruncatedLine /\ ~last.hasRec)
       /\ cfg.mode = "lazy" =>
            /\ last.hasRec
            /\ \A i \in (Len(input.rows[calls]) + 1)..NumFields(input) :
                  /\ BytesByIndex(rd.header, last.row, i).err = ErrTruncatedLine
                  /\ ValueByIndex(rd.header, last.row, i).err = ErrTruncatedLine

\* C4: a column equal to the header's Unset or Empty bytes converts to nil
\* without error whatever type is declared for it, scalar or container: in
\* readValue, in BytesByIndex and ValueByIndex, and so in the record an
\* eager Read returns (nil under the field's key, or no key with omitEmpty).
C4_SentinelsConvertToAbsent ==
    (rd.hasHeader /\ last.op = "Read" /\ last.hasRec)
    => \A i \in 1..Len(last.row) :
          (i <= Len(rd.header.Types) /\ last.row[i] \in {rd.header.Unset, rd.header.Empty})
          => /\ readValue(rd.header, last.row, i) = [v |-> NilV, err |-> NoErr]
             /\ BytesByIndex(rd.header, last.row, i).isNil
             /\ BytesByIndex(rd.header, last.row, i).err = NoErr
             /\ ValueByIndex(rd.header, last.row, i) = [v |-> NilV, err |-> NoErr]
             /\ (cfg.mode = "eager" /\ i <= Len(rd.header.Fields)) =>
                   IF cfg.omitEmpty
                   THEN rd.header.Fields[i] \notin DOMAIN last.rec
                   ELSE last.rec[rd.header.Fields[i]] = NilV

C4_Witness ==
    /\ cfg.mode = "eager"
    /\ last.op = "Read"
    /\ last.hasRec
    /\ last.row[1] = B_emptyMark
    /\ rd.header.Empty = B_emptyMark
    /\ rd.header.Types[1].IsContainer

\* C5: a stream that ends with the #close footer and its newline, and the
\* same stream without that newline, give the same result Read for Read:
\* the same records, then io.EOF in both.
C5_FooterNewlineIsOptional ==
    (/\ seeks = 0
     /\ last.op = "Read"
     /\ input.tail = TailClose)
    => /\ last.err = twinLast.err
       /\ last.hasRec = twinLast.hasRec
       /\ last.rec = twinLast.rec
       /\ last.row = twinLast.row
       /\ (WellFormedRows(input) /\ Convertible(input) /\ calls = NumRows(input) + 1)
          => (last.err = EOF /\ twinLast.err = EOF)

\* C6: for the record a LazyReader.Read returned and every column index,
\* in or out of the row, ValueByIndex gives the value or the error that the
\* eager Reader's readValue gives for that column of that row.
C6_LazyEqualsEager ==
    (cfg.mode = "lazy" /\ last.op = "Read" /\ last.hasRec)
    => \A i \in 1..(MaxFields + 1) :
          (i <= Len(rd.header.Types) \/ i > Len(last.row))
          => ValueByIndex(rd.header, last.row, i) = readValue(rd.header, last.row, i)

C6_Witness ==
    /\ cfg.mode = "lazy"
    /\ last.op = "Read"
    /\ last.hasRec
    /\ last.row[1] = <<"1", ",", "2", ".", "5">>
    /\ rd.header.Types[1] = [Type |-> "Interval", IsContainer |-> TRUE]

\* C7: if a Read returned a record while Offset() reported O, then Seek(O)
\* followed by Read returns a row with the same columns, in number and
\* byte for byte.
C7_SeekThenReadRepeatsTheRow ==
    [][(/\ calls' = calls + 1
        /\ sought >= 0
        /\ \E x \in seen : x.off = sought)
       => /\ last'.hasRec
          /\ \A x \in seen : x.off = sought => last'.row = x.row]_vars

\* C8: after a Read that returned a record, be it the first Read, a Read
\* that followed a Read, or a Read that followed a Seek to the start of a
\* data row, Offset() is the byte position of the stream at which the line
\* of that record begins.
C8_OffsetIsStartOfRecordLine ==
    (/\ last.op = "Read"
     /\ last.hasRec
     /\ last.after >= 0 => last.after \in RowOffsets(input))
    => Offset(rd) = last.start

\* C9: once a Read has succeeded in parsing the header, Header().Length is
\* the total byte length of the directive lines, terminators included: the
\* offset of the stream at which the first data row begins.
C9_HeaderLengthIsFirstRowOffset ==
    rd.hasHeader
    => /\ rd.header.Length = Len(HeaderBytes(input))
       /\ (calls = 1 /\ last.op = "Read") => rd.header.Length = last.start

C9_Witness ==
    /\ rd.hasHeader
    /\ input.term = CRLF
    /\ calls = 1
    /\ last.hasRec
    /\ rd.header.Length = last.start

\* C10: the Read that follows a successful Seek (here: to the start of a
\* data row) takes its column count from the line it reads: it does not
\* fail on that line, and the row of its record has (delimiters in the
\* line) + 1 columns.
C10_SeekFreshensTheLatch ==
    (/\ last.op = "Read"
     /\ last.after \in RowOffsets(input)
     /\ ~ReadBytes(stream, last.start + 1).eof)
    => /\ last.err # Panic
       /\ last.hasRec => Len(last.row) = Count(ReadBytes(stream, last.start + 1).line, Tab) + 1

\* C11: Seek on a reader built over a stream that cannot seek returns the
\* seeking-unsupported error and leaves the reader with its parser (stream
\* position, row buffer, latch, offset) exactly as it was, so that the Read
\* that follows returns what it would have returned without the Seek.
C11_UnsupportedSeekChangesNothing ==
    [][(seeks' = seeks + 1 /\ ~rd.parser.fh)
       => /\ last'.err = ErrSeekingUnsupported
          /\ rd' = rd
          /\ ReadStep(stream, rd', cfg).out = ReadStep(stream, rd, cfg).out]_vars

C11_Witness ==
    /\ ~rd.parser.fh
    /\ seeks = 1
    /\ calls = 2
    /\ last.op = "Read"
    /\ last.hasRec
    /\ NumRows(input) = 2
    /\ last.row = input.rows[2]

\* C12: the record an eager Read returns has, with OmitEmpty(true), exactly
\* the names of the fields whose column is neither Unset nor Empty as its
\* keys (none at all for a row of sentinels only); with the default
\* setting every field name is a key, and the key of an absent column
\* maps to nil.  The columns are those of the data row read.
C12_OmitEmptyDropsAbsentKeys ==
    (cfg.mode = "eager" /\ last.op = "Read" /\ last.hasRec)
    => LET F == rd.header.Fields
           present == {i \in 1..Len(F) :
                          last.row[i] \notin {rd.header.Unset, rd.header.Empty}}
       IN  /\ DOMAIN last.rec = IF cfg.omitEmpty
                                THEN {F[i] : i \in present}
                                ELSE {F[i] : i \in 1..Len(F)}
           /\ ~cfg.omitEmpty => \A i \in (1..Len(F)) \ present : last.rec[F[i]] = NilV
           /\ (/\ seeks = 0
               /\ calls <= NumRows(input)
               /\ Convertible(input)
               /\ \A r \in 1..calls : Len(input.rows[r]) = NumFields(input))
              => last.row = input.rows[calls]

C12_Witness ==
    /\ cfg.mode = "eager"
    /\ cfg.omitEmpty
    /\ last.op = "Read"
    /\ last.hasRec
    /\ Len(rd.header.Fields) = 2
    /\ last.row = <<B_emptyMark, B_dash>>
    /\ DOMAIN last.rec = {}

\* C13: when the stream ends in a cut data line and Read has returned the
\* truncated-line error for it, the next Read returns io.EOF and no
\* record, and so does every Read after that.
C13_TruncationIsReportedOnce ==
    [][(/\ calls' = calls + 1
        /\ seeks = 0
        /\ input.tail = TailCutRow
        /\ last.op = "Read"
        /\ \/ last.err = ErrTruncatedLine /\ last.start = Len(stream) - Len(TailCutRow)
           \/ last.err = EOF)
       => (last'.err = EOF /\ ~last'.hasRec)]_vars

C13_Witness ==
    /\ input.tail = TailCutRow
    /\ seeks = 0
    /\ NumRows(input) >= 1
    /\ calls = NumRows(input) + 2
    /\ last.op = "Read"
    /\ last.err = EOF

\* the j-th piece of col, counted from 1, between the occurrences of the
\* separator byte c
Piece(col, c, j) ==
    SubSeq(col,
           IF j = 1 THEN 1 ELSE NthIndex(col, c, j - 1) + 1,
           IF j = Count(col, c) + 1 THEN Len(col) ELSE NthIndex(col, c, j) - 1)

\* C14: a column of a container type that is neither Unset nor Empty
\* converts to the list of its pieces between the occurrences of the set
\* separator (k occurrences, k + 1 pieces, in the order of the column),
\* each converted by the converter of the base type; the first piece that
\* does not convert makes the column fail with that piece's error.  So for
\* readValue, for ValueByIndex, and for the record of the eager Read.
C14_ContainerSplitsAtSeparator ==
    (/\ rd.hasHeader
     /\ seeks = 0
     /\ calls = 1
     /\ last.op = "Read"
     /\ NumFields(input) = 2
     /\ Len(rd.header.Types) = 2
     /\ rd.header.Types[1].IsContainer
     /\ rd.header.SetSeparator = B_comma
     /\ input.rows[1][1] \notin {rd.header.Unset, rd.header.Empty})
    => LET col == input.rows[1][1]
           k == Count(col, ",")
           conv(j) == ValueConverter(rd.header.Types[1].Type, Piece(col, ",", j))
           bad == {j \in 1..(k + 1) : conv(j).err # NoErr}
           want == IF bad = {}
                   THEN [v |-> ListV([j \in 1..(k + 1) |-> conv(j).v]), err |-> NoErr]
                   ELSE [v |-> NilV, err |-> conv(Min(bad)).err]
       IN  /\ Current(rd.parser)[1] = col
           /\ readValue(rd.header, Current(rd.parser), 1) = want
           /\ ValueByIndex(rd.header, Current(rd.parser), 1) = want
           /\ cfg.mode = "eager" =>
                 IF bad = {}
                 THEN last.hasRec /\ last.rec[rd.header.Fields[1]] = want.v
                 ELSE ~last.hasRec /\ last.err = want.err

C14_Witness ==
    /\ cfg.mode = "eager"
    /\ last.op = "Read"
    /\ last.hasRec
    /\ last.row[1] = <<"a", ",", "b">>
    /\ rd.header.Types[1] = [Type |-> "String", IsContainer |-> TRUE]
    /\ last.rec[<<"x">>] = ListV(<<StringV(<<"a">>), StringV(<<"b">>)>>)

\* what the text t of a #types entry stands for, told from the way the
\* text is built: a known name, a known name in brackets after any outer
\* name, or neither, and then the name that is unknown
TypeOuters == {<<"s", "e", "t">>, <<"v", "e", "c", "t", "o", "r">>, <<>>}
UnknownNames == {<<"f", "o", "o">>, <<"S", "t", "r", "i", "n", "g">>, <<>>}
Bracketed(outer, inner) == outer \o <<"[">> \o inner \o <<"]">>

ExpectedFieldType(t) ==
    IF \E dt \in DataTypes : t = TypeName(dt)
    THEN [ft |-> [Type |-> CHOOSE dt \in DataTypes : t = TypeName(dt),
                  IsContainer |-> FALSE],
          err |-> NoErr]
    ELSE IF \E o \in TypeOuters, dt \in DataTypes : t = Bracketed(o, TypeName(dt))
    THEN [ft |-> [Type |-> CHOOSE dt \in DataTypes :
                              \E o \in TypeOuters : t = Bracketed(o, TypeName(dt)),
                  IsContainer |-> TRUE],
          err |-> NoErr]
    ELSE [ft |-> [Type |-> "String", IsContainer |-> FALSE],
          err |-> ErrorInvalidFieldType(
                     IF \E o \in TypeOuters, nm \in UnknownNames : t = Bracketed(o, nm)
                     THEN CHOOSE nm \in UnknownNames :
                             \E o \in TypeOuters : t = Bracketed(o, nm)
                     ELSE t)]

\* C15: readFieldType gives {type, IsContainer false} for a known base-type
\* name, {inner type, IsContainer true} for outer[inner] with a known inner
\* name, and for every other text the invalid-field-type error that
\* carries the unknown name; a stream whose #types holds such a text makes
\* the first Read return that error, and no header.
C15_FieldTypesAreParsed ==
    /\ last.op = "Read" =>
          \A j \in 1..Len(input.types) :
             readFieldType(input.types[j]) = ExpectedFieldType(input.types[j])
    /\ (/\ calls = 1
        /\ seeks = 0
        /\ last.op = "Read"
        /\ \E j \in 1..Len(input.types) : ExpectedFieldType(input.types[j]).err # NoErr)
       => /\ ~rd.hasHeader
          /\ ~last.hasRec
          /\ last.err =
               ExpectedFieldType(
                  input.types[Min({j \in 1..Len(input.types) :
                                      ExpectedFieldType(input.types[j]).err # NoErr})]).err

\* C16: once the header is parsed, the Header holds what the directives
\* say: Separator the byte of the \xHH payload of #separator, Fields the
\* arguments of #fields in order (each passed through the key transform of
\* the eager reader, if it has one), Types the parsed arguments of #types
\* in order, Unset, Empty and SetSeparator the argument bytes of their
\* directives, Path the argument of #path.
C16_HeaderReflectsDirectives ==
    (/\ rd.hasHeader
     /\ NamesAByte(input.sep)
     /\ \A j \in 1..Len(input.types) : ExpectedFieldType(input.types[j]).err = NoErr)
    => /\ rd.header.Separator = (IF input.sep = HexTab THEN 9 ELSE 44)
       /\ rd.header.Fields =
             [j \in 1..NumFields(input) |->
                 IF cfg.mode = "eager" /\ cfg.kt # "nil"
                 THEN xformKey(cfg.kt, input.fields[j])
                 ELSE input.fields[j]]
       /\ rd.header.Types =
             [j \in 1..Len(input.types) |-> ExpectedFieldType(input.types[j]).ft]
       /\ rd.header.Unset = B_dash
       /\ rd.header.Empty = B_emptyMark
       /\ rd.header.SetSeparator = B_comma
       /\ rd.header.Path = <<"c", "o", "n", "n">>

C16_Witness ==
    /\ rd.hasHeader
    /\ input.sep = HexComma
    /\ rd.header.Separator = 44
    /\ rd.header.Fields = input.fields
    /\ rd.header.Types = <<[Type |-> "String", IsContainer |-> FALSE],
                           [Type |-> "String", IsContainer |-> FALSE]>>

\* C17: for the record a LazyReader.Read returned and every index i of
\* Header().Fields, BytesByName(Fields[i]) returns what BytesByIndex(i)
\* returns (the bytes, the absence or the error), and ValueByName(Fields[i])
\* what ValueByIndex(i) returns.
C17_ByNameEqualsByIndex ==
    (cfg.mode = "lazy" /\ last.op = "Read" /\ last.hasRec)
    => \A i \in 1..Len(rd.header.Fields) :
          /\ BytesByName(rd.fieldIndex, rd.header, last.row, rd.header.Fields[i])
                = BytesByIndex(rd.header, last.row, i)
          /\ ValueByName(rd.fieldIndex, rd.header, last.row, rd.header.Fields[i])
                = ValueByIndex(rd.header, last.row, i)

C17_Witness ==
    /\ cfg.mode = "lazy"
    /\ last.op = "Read"
    /\ last.hasRec
    /\ Len(rd.header.Fields) = 2
    /\ Len(last.row) = 2
    /\ last.row[1] # last.row[2]
    /\ BytesByName(rd.fieldIndex, rd.header, last.row, rd.header.Fields[2])
          = [isNil |-> FALSE, buf |-> last.row[2], err |-> NoErr]

\* names a caller may ask a record for that no input declares
ProbeNames == {<<"f", "3">>, <<"i", "d", "_", "p">>, <<"X">>, <<>>}

\* C18: on a record of the LazyReader, BytesByName and ValueByName of a
\* name that is not in the header's Fields return the no-such-field error
\* for that name and no value, whatever the row holds; of a name that is
\* in Fields they do not return that error.
C18_UnknownNameIsNoSuchField ==
    (cfg.mode = "lazy" /\ last.op = "Read" /\ last.hasRec)
    => \A name \in ProbeNames \cup {rd.header.Fields[i] : i \in 1..Len(rd.header.Fields)} :
          IF \E i \in 1..Len(rd.header.Fields) : rd.header.Fields[i] = name
          THEN /\ BytesByName(rd.fieldIndex, rd.header, last.row, name).err
                     # ErrNoSuchField(name)
               /\ ValueByName(rd.fieldIndex, rd.header, last.row, name).err
                     # ErrNoSuchField(name)
          ELSE \A row \in {last.row, <<>>} :
                  /\ BytesByName(rd.fieldIndex, rd.header, row, name)
                        = [isNil |-> TRUE, buf |-> <<>>, err |-> ErrNoSuchField(name)]
                  /\ ValueByName(rd.fieldIndex, rd.header, row, name)
                        = [v |-> NilV, err |-> ErrNoSuchField(name)]

C18_Witness ==
    /\ cfg.mode = "lazy"
    /\ last.op = "Read"
    /\ last.hasRec
    /\ rd.header.Fields = <<<<"x">>, <<"i", "d", ".", "p">>>>
    /\ ValueByName(rd.fieldIndex, rd.header, last.row, <<"i", "d", "_", "p">>).err
          = ErrNoSuchField(<<"i", "d", "_", "p">>)
    /\ ValueByName(rd.fieldIndex, rd.header, last.row, <<"i", "d", ".", "p">>).err = NoErr

\* C19: for an eager reader with a key transform f, Header().Fields is the
\* list of f(name) for the names of #fields in order, after the first Read
\* and after every later one (f is not applied again); the keys of every
\* record are among the f(name), and a record from which nothing is
\* omitted has all of them, as many as there are fields.
C19_KeysAreTransformedOnce ==
    (cfg.mode = "eager" /\ cfg.kt # "nil" /\ rd.hasHeader)
    => LET keys == {xformKey(cfg.kt, input.fields[j]) : j \in 1..NumFields(input)}
       IN  /\ rd.header.Fields =
                 [j \in 1..NumFields(input) |-> xformKey(cfg.kt, input.fields[j])]
           /\ (last.op = "Read" /\ last.hasRec) =>
                 /\ DOMAIN last.rec \subseteq keys
                 /\ (~cfg.omitEmpty
                      \/ \A i \in 1..NumFields(input) :
                            last.row[i] \notin {rd.header.Unset, rd.header.Empty})
                    => /\ DOMAIN last.rec = keys
                       /\ Cardinality(DOMAIN last.rec) = NumFields(input)

C19_Witness ==
    /\ cfg.mode = "eager"
    /\ cfg.kt = "under"
    /\ calls = 2
    /\ last.op = "Read"
    /\ last.hasRec
    /\ rd.header.Fields = <<<<"_", "i", "d", ".", "p">>, <<"_", "a", ".", "b", ".", "c">>>>
    /\ DOMAIN last.rec = {<<"_", "i", "d", ".", "p">>, <<"_", "a", ".", "b", ".", "c">>}

\* C20: the first Read consumes the directive lines and nothing more: the
\* row it converts is the first data row, at the offset where the
\* directive block ends, and it is the row Current() gives; the second
\* Read converts the second data row.  No data row is skipped and none is
\* returned twice.
C20_BootstrapReturnsFirstDataRow ==
    (/\ seeks = 0
     /\ last.op = "Read"
     /\ calls \in 1..2
     /\ calls <= NumRows(input)
     /\ NamesAByte(input.sep)
     /\ \A j \in 1..Len(input.types) : readFieldType(input.types[j]).err = NoErr)
    => /\ last.start = RowOffset(input, calls)
       /\ Current(rd.parser) = input.rows[calls]
       /\ cfg.mode = "lazy" => (last.hasRec /\ last.row = input.rows[calls])
       /\ (/\ cfg.mode = "eager"
           /\ Convertible(input)
           /\ Len(input.rows[calls]) >= NumFields(input))
          => (last.hasRec /\ last.row = input.rows[calls])

C20_Witness ==
    /\ seeks = 0
    /\ calls = 2
    /\ NumRows(input) = 3
    /\ input.term = CRLF
    /\ last.op = "Read"
    /\ last.hasRec
    /\ last.row = input.rows[2]
    /\ last.start = RowOffset(input, 2)

\* the columns a complete line stands for: its bytes between the
\* delimiters, the \n or \r\n taken off the last one
LineColumns(line) ==
    LET a == IF line # <<>> /\ line[Len(line)] = "\n"
             THEN SubSeq(line, 1, Len(line) - 1) ELSE line
        b == IF a # <<>> /\ a[Len(a)] = "\r" THEN SubSeq(a, 1, Len(a) - 1) ELSE a
    IN  Split(b, <<Tab>>)

\* the line a Read that reported start read from the stream
LineAt(start) == ReadBytes(stream, start + 1).line

\* C21: every row a Read returns has as many columns as the latch says:
\* the column count (delimiters + 1) of the line itself when the latch was
\* reset before the Read, the latched count otherwise; and the row holds,
\* column by column, the bytes of the line just read, the \n or \r\n taken
\* off the last column.
C21_RowIsTheLineInLatchedColumns ==
    [][(calls' = calls + 1 /\ last'.hasRec)
       => /\ Len(last'.row) = (IF rd.hasHeader /\ rd.parser.n # 0
                               THEN rd.parser.n
                               ELSE Count(LineAt(last'.start), Tab) + 1)
          /\ last'.row = LineColumns(LineAt(last'.start))]_vars

\* C22: a successful Seek leaves the column-count latch and the row buffer
\* as they were, and the row returned by the first Read after it has the
\* column count latched before the Seek, whatever line that Read reads.
C22_SeekKeepsTheLatch ==
    [][/\ (seeks' = seeks + 1 /\ last'.err = NoErr)
          => /\ rd'.parser.n = rd.parser.n
             /\ rd'.parser.row = rd.parser.row
       /\ (calls' = calls + 1 /\ sought >= 0 /\ rd.parser.n # 0 /\ last'.hasRec)
          => /\ Len(last'.row) = rd.parser.n
             /\ rd'.parser.n = rd.parser.n]_vars

C22_Witness ==
    /\ last.op = "Read"
    /\ last.after = 0
    /\ last.hasRec
    /\ rd.parser.n = 2
    /\ Len(last.row) = 2
    /\ Count(LineAt(last.start), Tab) + 1 = 1

\* the columns of data row r that do not convert
BadColumns(in, r) ==
    {j \in 1..NumFields(in) : ExpectedColumn(in, r, j).err # NoErr}

\* C23: in a stream of well-formed rows of which some do not convert, the
\* k-th Read of the eager reader returns, for a row with a column that
\* fails conversion (for a container column, an element of it), the error
\* of the first such column and no record, and for every other row, before
\* or after a failing one, the record of that row: the failing row is
\* consumed.
C23_ConversionFailureSkipsOneRow ==
    (/\ cfg.mode = "eager"
     /\ seeks = 0
     /\ last.op = "Read"
     /\ calls \in 1..NumRows(input)
     /\ WellFormedRows(input)
     /\ \A j \in 1..Len(input.types) : readFieldType(input.types[j]).err = NoErr
     /\ \E r \in 1..NumRows(input) : BadColumns(input, r) # {})
    => /\ Current(rd.parser) = input.rows[calls]
       /\ IF BadColumns(input, calls) # {}
          THEN /\ ~last.hasRec
               /\ last.err = ExpectedColumn(input, calls, Min(BadColumns(input, calls))).err
          ELSE ReturnedRow(calls)

C23_Witness ==
    /\ cfg.mode = "eager"
    /\ seeks = 0
    /\ calls = 3
    /\ NumRows(input) = 3
    /\ input.types[1] = <<"s", "e", "t", "[">> \o TypeName("Count") \o <<"]">>
    /\ input.rows[2][1] = <<"8", ",", "x">>
    /\ ReturnedRow(3)
    /\ last.rec[<<"x">>] = ListV(<<Uint64V(<<"3">>)>>)

\* C24: when the payload of #separator does not decode to a byte (bytes
\* that are no hex digits, an odd number of hex digits, an empty payload or
\* none at all), the first Read returns the invalid-separator error, no
\* record, and the reader has no header.
C24_BadSeparatorIsInvalidSeparator ==
    (calls = 1 /\ last.op = "Read" /\ ~NamesAByte(input.sep))
    => /\ last.err = ErrInvalidSeparator
       /\ ~last.hasRec
       /\ ~rd.hasHeader

\* C26: what a kept LazyRecord returns from BytesByIndex and ValueByIndex
\* does not change before the next Read on its reader (a Seek leaves it
\* alone); a Read made with the latch set reuses the row buffer, and the
\* record of the Read before it then returns the columns of the row the
\* parser has just read instead of its own; a Read made with the latch
\* reset leaves the record with its own columns.
C26_LazyRecordIsABorrowedView ==
    [][(/\ cfg.mode = "lazy"
        /\ Len(held) > 0
        /\ held[Len(held)].call = calls
        /\ last'.err # Panic)
       => LET k == Len(held)
              shows(row, i) == <<BytesByIndex(rd'.header, row, i),
                                 ValueByIndex(rd'.header, row, i)>>
          IN  /\ seeks' = seeks + 1 => held'[k] = held[k]
              /\ calls' = calls + 1 =>
                    \A i \in 1..(MaxFields + 1) :
                       shows(held'[k].row, i)
                          = shows(IF rd.parser.n # 0
                                  THEN Current(rd'.parser)
                                  ELSE held[k].row, i)]_vars

C26_Witness ==
    /\ cfg.mode = "lazy"
    /\ seeks = 0
    /\ calls = 3
    /\ NumRows(input) = 3
    /\ WellFormedRows(input)
    /\ NumFields(input) = 2
    /\ Len(held) = 3
    /\ held[1].row = input.rows[1]
    /\ held[2].own = input.rows[2]
    /\ held[2].row = input.rows[3]
    /\ BytesByIndex(rd.header, held[2].row, 1).buf = <<"c", "1">>

\* C27: once the reader has its header, no Read and no Seek replaces or
\* changes it (nor the field index made from it), whatever the call
\* returns, and the record of every later eager Read is the conversion of
\* its row by that header.
C27_HeaderIsSetOnce ==
    [][rd.hasHeader
       => /\ rd'.hasHeader
          /\ rd'.header = rd.header
          /\ rd'.fieldIndex = rd.fieldIndex
          /\ (cfg.mode = "eager" /\ calls' = calls + 1 /\ last'.hasRec)
             => last'.rec = makeRecord(rd.header, last'.row, cfg.omitEmpty).rec]_vars

C27_Witness ==
    /\ cfg.mode = "eager"
    /\ rd.hasHeader
    /\ calls = 3
    /\ last.op = "Read"
    /\ last.after = 0
    /\ last.hasRec
    /\ rd.header.Fields = input.fields
    /\ rd.header.Length = Len(HeaderBytes(input))

\* the number a text of decimal digits stands for
RECURSIVE DecimalValue(_)
DecimalValue(d) ==
    IF d = <<>> THEN 0
    ELSE DecimalValue(SubSeq(d, 1, Len(d) - 1)) * 10 + DigitVal(d[Len(d)])

\* C28: a port column that is neither Unset nor Empty converts to the
\* 16-bit unsigned value of its decimal digits when the text is one or more
\* digits whose value is in 0..65535; every other text (a value over 65535,
\* a sign, a byte that is no digit, no byte at all) is a conversion
\* failure: readValue and ValueByIndex return an error, and the eager Read
\* returns that error and no record, never a value reduced modulo 2^16.
C28_PortIsSixteenBitsOrAnError ==
    (/\ rd.hasHeader
     /\ seeks = 0
     /\ calls = 1
     /\ last.op = "Read"
     /\ NumRows(input) >= 1
     /\ Len(input.rows[1]) = 2
     /\ rd.header.Types = <<[Type |-> "Port", IsContainer |-> FALSE],
                            [Type |-> "Count", IsContainer |-> FALSE]>>
     /\ input.rows[1][1] \notin {rd.header.Unset, rd.header.Empty}
     /\ ExpectedColumn(input, 1, 2).err = NoErr)
    => LET t == input.rows[1][1]
           inRange == t # <<>> /\ IsDigits(t) /\ DecimalValue(t) <= 65535
           got == readValue(rd.header, Current(rd.parser), 1)
       IN  /\ Current(rd.parser)[1] = t
           /\ ValueByIndex(rd.header, Current(rd.parser), 1) = got
           /\ IF inRange
              THEN /\ got = [v |-> Uint16V(DecimalValue(t)), err |-> NoErr]
                   /\ cfg.mode = "eager" =>
                         (last.hasRec /\ last.rec[rd.header.Fields[1]] = Uint16V(DecimalValue(t)))
              ELSE /\ got.err \in {ErrSyntax, ErrRange}
                   /\ cfg.mode = "eager" => (~last.hasRec /\ last.err = got.err)

C28_Witness ==
    /\ cfg.mode = "eager"
    /\ calls = 1
    /\ rd.hasHeader
    /\ rd.header.Types[1] = [Type |-> "Port", IsContainer |-> FALSE]
    /\ NumRows(input) = 1
    /\ input.rows[1][1] = <<"6", "5", "5", "3", "6">>
    /\ last.err = ErrRange
    /\ ~last.hasRec

\* C30: over a stream whose directive block is well formed, every Read and
\* every Seek returns (a row or record, or an error): none indexes outside
\* the line or the row buffer, whatever the data rows and the footer are,
\* a footer of more columns than the latched count included.
C30_ReadIsTotal ==
    (/\ NamesAByte(input.sep)
     /\ \A j \in 1..Len(input.types) : readFieldType(input.types[j]).err # Panic)
    => last.err # Panic

\* C29: a line longer than the maximum line length (that of bufio's
\* Scanner) makes Read fail with the line-too-long error, and no row is
\* returned for that line.
C29_LongLineIsLineTooLong ==
    (last.op = "Read" /\ Len(LineAt(last.start)) > MaxScanTokenSize)
    => (last.err = ErrTooLong /\ ~last.hasRec)

\* C29, amended: the splitter has no maximum line length.  A complete line
\* longer than bufio's scanner limit is read like any other: the k-th Read
\* of a well-formed stream returns the record of data row k, the long
\* column whole, and no Read returns the line-too-long error.
C29_LongLineIsReadWhole ==
    /\ last.err # ErrTooLong
    /\ (/\ seeks = 0
        /\ last.op = "Read"
        /\ calls \in 1..NumRows(input)
        /\ WellFormedRows(input)
        /\ NumFields(input) = 2
        /\ Convertible(input)
        /\ NamesAByte(input.sep)
        /\ Len(RowLine(input, calls)) > MaxScanTokenSize)
       => /\ ReturnedRow(calls)
          /\ Offset(rd) = RowOffset(input, calls)

C29_Witness ==
    /\ cfg.mode = "eager"
    /\ calls = 1
    /\ last.op = "Read"
    /\ last.hasRec
    /\ Len(LineAt(last.start)) > 2 * MaxScanTokenSize
    /\ Len(last.row) = 2
    /\ Len(last.row[2]) = giantColumnSize
    /\ last.rec[<<"f", "2">>] = StringV(last.row[2])

\* C25 (under ScanSpec): a Parser with Copy set returns, Read for Read, the
\* rows a Parser without Copy returns for the same stream, and the rows it
\* has returned keep their columns while it reads on.
C25_CopyGivesTheSameRows ==
    /\ (last.op = "Read" /\ last.err = NoErr)
       => (twinLast.err = NoErr /\ twinLast.row = last.row)
    /\ \A i \in 1..Len(held) : held[i].row = held[i].own

\* C31: the Parser's Delimiter is the tab NewParser configured, before and
\* after every Read and Seek, whatever byte #separator declares; the
\* header built from a well-formed directive block has Separator as
\* declared and the #fields and #types entries the tabs of their lines
\* separate; and in the row of
\* every record the columns the line has are its bytes between the tabs.
C31_DelimiterIsNotTheSeparator ==
    /\ rd.parser.Delimiter = Tab
    /\ twin.parser.Delimiter = Tab
    /\ (/\ rd.hasHeader
        /\ NamesAByte(input.sep)
        /\ \A j \in 1..Len(input.types) : ExpectedFieldType(input.types[j]).err = NoErr)
       => /\ rd.header.Separator = HexVal(input.sep[4]) * 16 + HexVal(input.sep[5])
          /\ Len(rd.header.Fields) = NumFields(input)
          /\ Len(rd.header.Types) = Len(input.types)
    /\ (last.op = "Read" /\ last.hasRec)
       => \A j \in 1..Len(last.row) :
              j <= Len(LineColumns(LineAt(last.start)))
              => last.row[j] = LineColumns(LineAt(last.start))[j]

C31_Witness ==
    /\ input.sep = HexComma
    /\ rd.hasHeader
    /\ rd.header.Separator = 44
    /\ rd.parser.Delimiter = Tab
    /\ calls = 1
    /\ last.op = "Read"
    /\ last.hasRec
    /\ last.row = <<<<"a", "1">>, <<"x", ",", "y">>>>
    /\ Len(rd.header.Fields) = 2

\* C32: a Read that directly follows a Read that returned io.EOF (no Seek
\* between the two) returns io.EOF as well, and no record; so every Read
\* after the first io.EOF does, until a Seek.
C32_EndOfStreamIsSticky ==
    [][(last.op = "Read" /\ last.err = EOF /\ last'.op = "Read" /\ calls' = calls + 1)
       => (last'.err = EOF /\ ~last'.hasRec)]_vars

\* the complete lines of the stream that end before position pos
LinesBefore(pos) == Cardinality({i \in 1..(pos - 1) : stream[i] = "\n"})

\* the lines of the stream: the complete ones and an unterminated rest
NumLines ==
    LinesBefore(Len(stream) + 1)
    + (IF stream # <<>> /\ stream[Len(stream)] # "\n" THEN 1 ELSE 0)

\* C33: every Read that returns a record leaves the parser at least one
\* complete line further in the stream than it found it; so a caller that
\* only reads, and has had a record from each of its calls so far, has
\* made no more calls than there are lines after the header up to the
\* parser's position, which are fewer than the lines of the stream: its
\* next call at the latest, call number NumLines + 1 at most, returns an
\* error.  Within MaxCalls calls every such caller has met one.
C33_ReadConsumesALine ==
    [][/\ (last'.op = "Read" /\ calls' = calls + 1 /\ last'.hasRec)
          => LinesBefore(rd'.parser.pos) >= LinesBefore(rd.parser.pos) + 1
       /\ (seeks' = 0 /\ Cardinality(seen') = calls')
          => /\ calls' + LinesBefore(rd'.header.Length + 1) <= LinesBefore(rd'.parser.pos)
             /\ calls' < NumLines
             /\ calls' < MaxCalls]_vars

C33_Witness ==
    /\ seeks = 0
    /\ NumRows(input) = 3
    /\ input.tail = TailNone
    /\ calls = 4
    /\ Cardinality(seen) = 3
    /\ last.op = "Read"
    /\ last.err = EOF
    /\ rd.parser.pos = Len(stream) + 1
    /\ LinesBefore(rd.parser.pos) = NumLines
    /\ LinesBefore(rd.header.Length + 1) + 3 = NumLines

====
